---- MODULE Spec2Model ----
(***************************************************************************)
(* Model of the asemantic fragment validation protocol                     *)
(* (asemantic_protocol: crypto.py, fragment.py, state.py, validator.py).   *)
(*                                                                         *)
(* Byte strings are symbolic terms.  A term is a record [root, n]: the     *)
(* n-th element of the one-way chain that starts at the provisioned        *)
(* value `root`.  HMAC-SHA256, SHAKE256 and SHA-256 are modelled as ideal  *)
(* hashes: two digests are equal exactly when primitive, key and message   *)
(* are equal, and a KDF chain neither cycles nor meets another chain (but  *)
(* for the chain of one pathological seed, kept for the collisions in a    *)
(* window).                                                                *)
(***************************************************************************)
EXTENDS Integers, Sequences, FiniteSets, TLC

\* ---------------------------------------------------------------------
\* Bounds of the model
\* ---------------------------------------------------------------------
MaxIndex == 1
MaxNu == 1

\* ---------------------------------------------------------------------
\* Program constants
\* ---------------------------------------------------------------------
DEFAULT_FRAGMENT_LENGTH == 256
MinFragmentLength == 256

\* ---------------------------------------------------------------------
\* Values
\* ---------------------------------------------------------------------
\* Python's None, as a term so that it compares with seeds
None == [root |-> "None", n |-> 0]
\* the seed K_0 provisioned out of band to both endpoints
K0 == [root |-> "k0", n |-> 0]
\* a seed that belongs to another deployment
ForeignSeed == [root |-> "kx", n |-> 0]
\* a pathological seed, a fixed point of KDF: every index of its chain
\* recomputes the same fragment
CyclicSeed == [root |-> "kc", n |-> 0]
\* the domain tag provisioned to both endpoints
Domain == "D"
\* application payloads S
Payloads == {"SA", "SB"}

\* ---------------------------------------------------------------------
\* crypto.py
\* ---------------------------------------------------------------------
\* K_{j+1} := HMAC(K_j, K_j || "ASEMANTIC_KDF_V1"), autonomous evolution
KDF(seed) ==
    IF seed.root = "kc" THEN seed
    ELSE [root |-> seed.root, n |-> seed.n + 1]

RECURSIVE KDFn(_, _)
\* KDF applied k times
KDFn(seed, k) == IF k <= 0 THEN seed ELSE KDFn(KDF(seed), k - 1)

\* length-prefixed concatenation of the three parts
encode(domain, content, evolution_param) ==
    <<domain, content, evolution_param>>

\* mutant of prepare_content: the representation does not depend on the payload
prepare_content_constant(content, use_hash) ==
    [hashed |-> use_hash, s |-> ""]

\* C := R(S): SHA-256 of the payload, or the payload itself
prepare_content(content, use_hash) ==
    IF use_hash THEN [hashed |-> TRUE, s |-> content]
    ELSE [hashed |-> FALSE, s |-> content]

\* the outcome of the parameter check of compute_fragment
ValueError ==
    [len |-> 0, prf |-> "ValueError", key |-> None,
     msg |-> encode(Domain, prepare_content("", FALSE), None)]

\* the size of one HMAC-SHA256 digest, in bytes
SHA256_DIGEST_BYTES == 32

\* mutant of the extension: no block is added to the first digest
extended_length_single_block(output_len, fragment_length_bytes) ==
    output_len

RECURSIVE extended_length(_, _)
\* keyed mode: len(output) after the counter-mode extension, which adds one
\* digest while len(output) < fragment_length_bytes
extended_length(output_len, fragment_length_bytes) ==
    IF output_len < fragment_length_bytes
    THEN extended_length(output_len + SHA256_DIGEST_BYTES, fragment_length_bytes)
    ELSE output_len

\* len(output[:fragment_length_bytes])
truncated_length(output_len, fragment_length_bytes) ==
    IF output_len < fragment_length_bytes THEN output_len
    ELSE fragment_length_bytes

\* the length of the bytes compute_fragment returns: the HMAC digests gathered
\* in keyed mode, shake.digest(fragment_length_bytes) otherwise, truncated
output_length(fragment_length_bytes, keyed) ==
    IF keyed
    THEN truncated_length(
             extended_length(SHA256_DIGEST_BYTES, fragment_length_bytes),
             fragment_length_bytes)
    ELSE truncated_length(fragment_length_bytes, fragment_length_bytes)

\* F_i = Trunc_l(F(Encode(domain, C, Z_i)))
compute_fragment(domain, content, evolution_param, fragment_length_bits, key) ==
    IF fragment_length_bits < MinFragmentLength THEN ValueError
    ELSE [len |-> output_length(fragment_length_bits \div 8, key # None),
          prf |-> IF key # None THEN "hmac_sha256" ELSE "shake_256",
          key |-> key,
          msg |-> encode(domain, content, evolution_param)]

\* length check first, then equality of all bytes
constant_time_equal(a, b) ==
    IF a.len # b.len THEN FALSE ELSE a = b

\* ---------------------------------------------------------------------
\* crypto.py on byte strings.  A byte string is a sequence of bytes; the
\* terms above stand for the byte strings of one deployment, KDF(seed) for
\* KDF_context(seed, NoContext) and the triple of encode for encode_bytes
\* ---------------------------------------------------------------------
\* the longest byte string handed to encode and KDF
MaxLen == 2

\* the byte values the strings are made of
ByteValues == {0, 1}

\* the byte strings of at most MaxLen bytes
ByteStrings == UNION {[1..k -> ByteValues] : k \in 0..MaxLen}

\* len(data).to_bytes(4, 'big') + data
length_prefix(data) ==
    <<(Len(data) \div 16777216) % 256, (Len(data) \div 65536) % 256,
      (Len(data) \div 256) % 256, Len(data) % 256>> \o data

\* mutant of encode: the parts are concatenated without their lengths
encode_bytes_no_prefix(domain, content, evolution_param) ==
    domain \o content \o evolution_param

\* encode: the three parts, each after its 4-byte big-endian length
encode_bytes(domain, content, evolution_param) ==
    length_prefix(domain) \o length_prefix(content)
        \o length_prefix(evolution_param)

\* b"ASEMANTIC_KDF_V1"
KDF_TAG == <<65, 83, 69, 77, 65, 78, 84, 73, 67, 95, 75, 68, 70, 95, 86, 49>>

\* hmac.new(key, msg, sha256).digest() as an ideal function of key and message
hmac_sha256(key, msg) == [prf |-> "hmac_sha256", key |-> key, msg |-> msg]

\* context = None (the argument is left out)
NoContext == [given |-> FALSE, bytes |-> <<>>]

\* the context arguments of KDF: none, or a byte string (the empty one included)
Contexts == {NoContext} \cup {[given |-> TRUE, bytes |-> b] : b \in ByteStrings}

\* KDF(seed, context): HMAC(seed, seed || context || tag) when a context is
\* given, HMAC(seed, seed || tag) otherwise
KDF_context(seed, context) ==
    LET data == IF context.given THEN seed \o context.bytes ELSE seed
    IN hmac_sha256(seed, data \o KDF_TAG)

\* no direct call yet
NoCall ==
    [f |-> "None", domain |-> <<>>, content |-> <<>>, evolution_param |-> <<>>,
     seed |-> <<>>, context |-> NoContext, encoded |-> <<>>,
     digest |-> hmac_sha256(<<>>, <<>>)]

\* ---------------------------------------------------------------------
\* Evolution functions of Mode B (the evol_func handle)
\* ---------------------------------------------------------------------
EvolFuncs == {"counter", "epoch"}

\* counter: i.to_bytes(8, 'big'); epoch: a calendar period spanning two indices
Evol(f, i) ==
    IF f = "counter" THEN [root |-> "evol", n |-> i]
    ELSE [root |-> "evol", n |-> i \div 2]

\* ---------------------------------------------------------------------
\* State of the program
\* ---------------------------------------------------------------------
VARIABLES
    builder,    \* the FragmentBuilder (sender state)
    state,      \* the receiver state object (ReceiverState or SecureElementState)
    validator,  \* the FragmentValidator or ConstantTimeValidator
    blob,       \* the durable blob at persistence_path
    last,       \* the last call: its arguments, its outcome, the receiver before it
    accepted,   \* the submissions validate_and_commit has returned ACCEPT for
    snapshot,   \* a copy of the blob somebody kept (a backup, an attacker's copy)
    crypto,     \* the last direct call of encode or KDF on byte strings
    save,       \* the save in progress: its step, the temp file, the blobs before and after
    memory,     \* the seed buffers as bytes: their lengths, and the buffers given up
    calls       \* the validate_and_commit calls in progress, one per caller

vars == <<builder, state, validator, blob, last, accepted, snapshot, crypto, save, memory, calls>>

\* no file at persistence_path.  A blob is the content of the file: the
\* fields _save_state writes (rollback_counter -1: the key is absent, seed
\* None: the key is absent) and the form of the text, "ok" as written by
\* _save_state or damaged in one of the ways of BlobDamages
NoBlob ==
    [exists |-> FALSE, mode |-> "None", anchor |-> 0, seed |-> None,
     rollback_counter |-> -1, form |-> "ok"]

\* ---------------------------------------------------------------------
\* fragment.py: FragmentBuilder
\* ---------------------------------------------------------------------
\* FragmentBuilder.build: F_i from the payload at the current state
build(b, content, content_is_prepared) ==
    LET prepared == IF content_is_prepared
                    THEN prepare_content(content, FALSE)
                    ELSE prepare_content(content, TRUE)
        evolution_param == IF b.mode = "A" THEN b.seed
                           ELSE Evol(b.evol_func, b.index)
        key == IF b.mode = "A"
               THEN (IF b.use_keyed_mode THEN b.seed ELSE None)
               ELSE None
    IN compute_fragment(b.domain, prepared, evolution_param, b.fragment_length,
                        IF b.use_keyed_mode THEN key ELSE None)

\* mutant of advance: the index moves but the seed does not evolve
builder_advance_seed_kept(b) ==
    [b EXCEPT !.index = @ + 1]

\* FragmentBuilder.advance: K_{i+1} := KDF(K_i) in Mode A, i := i + 1
builder_advance(b) ==
    [b EXCEPT !.seed = IF b.mode = "A" THEN KDF(b.seed) ELSE @,
              !.index = @ + 1]

\* the builder as it was when its index was i <= b.index
builder_at(b, i) ==
    [b EXCEPT !.seed = IF b.mode = "A"
                       THEN [root |-> b.seed.root, n |-> b.seed.n - (b.index - i)]
                       ELSE @,
              !.index = i]

\* FragmentBuilder.__init__: the exception it raises ("None": it returns)
FragmentBuilder_raises(mode, seed, evol_func) ==
    IF mode = "A" /\ seed = None THEN "ValueError"
    ELSE IF mode = "B" /\ evol_func = "None" THEN "ValueError"
    ELSE "None"

\* FragmentBuilder.__init__: the builder it constructs; fragment_length is
\* stored as given
FragmentBuilder_init(domain, mode, seed, evol_func, fragment_length, use_keyed_mode) ==
    [mode |-> mode, index |-> 0,
     seed |-> IF mode = "A" THEN seed ELSE None,
     evol_func |-> IF mode = "B" THEN evol_func ELSE "None",
     domain |-> domain,
     fragment_length |-> fragment_length,
     use_keyed_mode |-> use_keyed_mode]

\* FragmentBuilder.mode_a
mode_a(domain, seed, fragment_length, use_keyed_mode) ==
    FragmentBuilder_init(domain, "A", seed, "None", fragment_length, use_keyed_mode)

\* FragmentBuilder.mode_b (use_keyed_mode is left at its default)
mode_b(domain, evol_func, fragment_length) ==
    FragmentBuilder_init(domain, "B", None, evol_func, fragment_length, TRUE)

\* FragmentBuilder.get_state: the saved dict (hex strings stand for the bytes
\* they encode; the key "seed" is present in Mode A only)
get_state(b) ==
    [mode |-> b.mode, index |-> b.index, domain |-> b.domain,
     fragment_length |-> b.fragment_length,
     seed |-> IF b.mode = "A" THEN b.seed ELSE None]

\* mutant of from_state: the index is not restored
from_state_index_lost(saved, evol_func) ==
    IF saved.mode = "A"
    THEN mode_a(saved.domain, saved.seed, saved.fragment_length, TRUE)
    ELSE mode_b(saved.domain, evol_func, saved.fragment_length)

\* FragmentBuilder.from_state: a builder from the saved dict, through mode_a
\* or mode_b with the saved domain, seed and length, then the saved index
from_state(saved, evol_func) ==
    IF saved.mode = "A"
    THEN [mode_a(saved.domain, saved.seed, saved.fragment_length, TRUE)
             EXCEPT !.index = saved.index]
    ELSE [mode_b(saved.domain, evol_func, saved.fragment_length)
             EXCEPT !.index = saved.index]

\* ---------------------------------------------------------------------
\* state.py: ReceiverState and SecureElementState
\* ---------------------------------------------------------------------
\* mutant of get_seed_for_index: the derivation stops one KDF step early
get_seed_for_index_one_short(st, index) ==
    IF st.mode # "A" THEN None
    ELSE IF index < st.anchor THEN None
    ELSE KDFn(st.seed, index - st.anchor - 1)

\* mutant of get_seed_for_index: an index below the anchor is not refused
get_seed_for_index_no_floor(st, index) ==
    IF st.mode # "A" THEN None
    ELSE KDFn(st.seed, index - st.anchor)

\* ReceiverState.get_seed_for_index: K_j derived from K_t, or None
get_seed_for_index(st, index) ==
    IF st.mode # "A" THEN None
    ELSE IF index < st.anchor THEN None
    ELSE KDFn(st.seed, index - st.anchor)

\* ReceiverState._save_state: the blob written for st
ReceiverState_save_state(st) ==
    [exists |-> TRUE, mode |-> st.mode, anchor |-> st.anchor,
     seed |-> IF st.mode = "A" THEN st.seed ELSE None,
     rollback_counter |-> -1, form |-> "ok"]

\* SecureElementState._save_state: the blob written for st, with the counter
SecureElementState_save_state(st) ==
    [exists |-> TRUE, mode |-> st.mode, anchor |-> st.anchor,
     seed |-> IF st.mode = "A" THEN st.seed ELSE None,
     rollback_counter |-> st.rollback_counter, form |-> "ok"]

\* self._save_state(), dispatched on the class of the state object
save_state(st) ==
    IF st.kind = "SecureElementState" THEN SecureElementState_save_state(st)
    ELSE ReceiverState_save_state(st)

\* mutant of advance: the anchor moves but the seed is left as it was
ReceiverState_advance_keeps_seed(st, bl, new_anchor, new_seed, write_ok) ==
    IF new_anchor <= st.anchor
    THEN [state |-> st, blob |-> bl, ret |-> "False"]
    ELSE IF st.mode = "A" /\ new_seed = None
    THEN [state |-> st, blob |-> bl, ret |-> "False"]
    ELSE LET st1 == [st EXCEPT !.anchor = new_anchor]
         IN IF st.persistence_path
            THEN IF write_ok
                 THEN [state |-> st1, blob |-> save_state(st1), ret |-> "True"]
                 ELSE [state |-> st1, blob |-> bl, ret |-> "OSError"]
            ELSE [state |-> st1, blob |-> bl, ret |-> "True"]

\* mutant of advance: only an anchor below the current one is refused
ReceiverState_advance_allows_equal(st, bl, new_anchor, new_seed, write_ok) ==
    IF new_anchor < st.anchor
    THEN [state |-> st, blob |-> bl, ret |-> "False"]
    ELSE IF st.mode = "A" /\ new_seed = None
    THEN [state |-> st, blob |-> bl, ret |-> "False"]
    ELSE LET st1 == [st EXCEPT !.anchor = new_anchor,
                               !.seed = IF st.mode = "A" THEN new_seed ELSE @]
         IN IF st.persistence_path
            THEN IF write_ok
                 THEN [state |-> st1, blob |-> save_state(st1), ret |-> "True"]
                 ELSE [state |-> st1, blob |-> bl, ret |-> "OSError"]
            ELSE [state |-> st1, blob |-> bl, ret |-> "True"]

\* ReceiverState.advance: the state, the blob and the outcome of the call.
\* write_ok tells whether the durable write succeeds; when it fails the
\* exception of _save_state leaves advance after the in-memory update.
ReceiverState_advance(st, bl, new_anchor, new_seed, write_ok) ==
    IF new_anchor <= st.anchor
    THEN [state |-> st, blob |-> bl, ret |-> "False"]
    ELSE IF st.mode = "A" /\ new_seed = None
    THEN [state |-> st, blob |-> bl, ret |-> "False"]
    ELSE LET st1 == [st EXCEPT !.anchor = new_anchor,
                               !.seed = IF st.mode = "A" THEN new_seed ELSE @]
         IN IF st.persistence_path
            THEN IF write_ok
                 THEN [state |-> st1, blob |-> save_state(st1), ret |-> "True"]
                 ELSE [state |-> st1, blob |-> bl, ret |-> "OSError"]
            ELSE [state |-> st1, blob |-> bl, ret |-> "True"]

\* ReceiverState.advance: the steps of one call in the order the code takes
\* them.  "prepare": _seed and _anchor are assigned; "erase": secure_erase of
\* the old seed (Mode A); "write" / "write_failed": _save_state, when there is
\* a persistence path.  A refused call takes none.
advance_steps(st, new_anchor, new_seed, write_ok) ==
    IF new_anchor <= st.anchor THEN <<>>
    ELSE IF st.mode = "A" /\ new_seed = None THEN <<>>
    ELSE (IF st.mode = "A" THEN <<"prepare", "erase">> ELSE <<"prepare">>)
         \o (IF st.persistence_path
             THEN (IF write_ok THEN <<"write">> ELSE <<"write_failed">>)
             ELSE <<>>)

\* SecureElementState.advance: super().advance, then the counter increment
SecureElementState_advance(st, bl, new_anchor, new_seed, write_ok) ==
    LET r == ReceiverState_advance(st, bl, new_anchor, new_seed, write_ok)
    IN IF r.ret = "True"
       THEN [r EXCEPT !.state.rollback_counter = @ + 1]
       ELSE r

\* state.advance(new_anchor, new_seed), dispatched on the class
advance(st, bl, new_anchor, new_seed, write_ok) ==
    IF st.kind = "SecureElementState"
    THEN SecureElementState_advance(st, bl, new_anchor, new_seed, write_ok)
    ELSE ReceiverState_advance(st, bl, new_anchor, new_seed, write_ok)

\* mutant of _load_state: the blob is adopted without the anti-rollback test
ReceiverState_load_state_unchecked(st, bl) ==
    IF ~(st.persistence_path /\ bl.exists) THEN st
    ELSE [st EXCEPT !.anchor = bl.anchor,
                    !.seed = IF st.mode = "A" /\ bl.seed # None THEN bl.seed ELSE @]

\* ReceiverState._load_state: the state the call leaves, adopting the blob
\* when its anchor is not older.  Text that json.load refuses is ignored;
\* JSON that is not an object and an anchor that is not a number raise before
\* any assignment; a seed that is not hex raises after the anchor is assigned.
ReceiverState_load_state(st, bl) ==
    IF ~(st.persistence_path /\ bl.exists) THEN st
    ELSE IF bl.form \in {"invalid_json", "not_object", "anchor_not_int"} THEN st
    ELSE IF bl.anchor >= st.anchor
    THEN [st EXCEPT !.anchor = bl.anchor,
                    !.seed = IF st.mode = "A" /\ bl.seed # None
                                /\ bl.form # "seed_not_hex"
                             THEN bl.seed ELSE @]
    ELSE st

\* ReceiverState._load_state: the exception that leaves the call ("None": it
\* returns); only json.JSONDecodeError and IOError are caught
ReceiverState_load_raises(st, bl) ==
    IF ~(st.persistence_path /\ bl.exists) THEN "None"
    ELSE IF bl.form = "invalid_json" THEN "None"
    ELSE IF bl.form = "not_object" THEN "AttributeError"
    ELSE IF bl.form = "anchor_not_int" THEN "TypeError"
    ELSE IF bl.anchor >= st.anchor /\ st.mode = "A" /\ bl.seed # None
            /\ bl.form = "seed_not_hex"
    THEN "ValueError"
    ELSE "None"

\* state.get("rollback_counter", 0)
loaded_counter(bl) == IF bl.rollback_counter = -1 THEN 0 ELSE bl.rollback_counter

\* SecureElementState._load_state: the state the call leaves.  has_counter is
\* FALSE for the call made inside super().__init__, before _rollback_counter
\* is set: the comparison then raises AttributeError.  The anchor is adopted
\* without any test of its own; an anchor that is not an integer (written -1
\* here) leaves an object no later call can work with.
SecureElementState_load_state(st, bl, has_counter) ==
    IF ~(st.persistence_path /\ bl.exists) THEN st
    ELSE IF bl.form \in {"invalid_json", "not_object"} THEN st
    ELSE IF ~has_counter THEN st
    ELSE IF loaded_counter(bl) < st.rollback_counter THEN st
    ELSE [st EXCEPT !.anchor = IF bl.form = "anchor_not_int" THEN -1 ELSE bl.anchor,
                    !.alive = bl.form # "anchor_not_int",
                    !.rollback_counter = loaded_counter(bl),
                    !.seed = IF st.mode = "A" /\ bl.seed # None
                                /\ bl.form # "seed_not_hex"
                             THEN bl.seed ELSE @]

\* SecureElementState._load_state: the exception that leaves the call
SecureElementState_load_raises(st, bl, has_counter) ==
    IF ~(st.persistence_path /\ bl.exists) THEN "None"
    ELSE IF bl.form = "invalid_json" THEN "None"
    ELSE IF bl.form = "not_object" THEN "AttributeError"
    ELSE IF ~has_counter THEN "AttributeError"
    ELSE IF loaded_counter(bl) < st.rollback_counter THEN "SecurityError"
    ELSE IF st.mode = "A" /\ bl.seed # None /\ bl.form = "seed_not_hex"
    THEN "ValueError"
    ELSE "None"

\* self._load_state(), dispatched on the class of the state object
load_state(st, bl, has_counter) ==
    IF st.kind = "SecureElementState"
    THEN SecureElementState_load_state(st, bl, has_counter)
    ELSE ReceiverState_load_state(st, bl)

load_raises(st, bl, has_counter) ==
    IF st.kind = "SecureElementState"
    THEN SecureElementState_load_raises(st, bl, has_counter)
    ELSE ReceiverState_load_raises(st, bl)

\* the object before __init__ looks at the persistence path
fresh(kind, mode, initial_anchor, seed, persistence_path) ==
    [kind |-> kind, mode |-> mode, anchor |-> initial_anchor,
     seed |-> IF mode = "A" THEN seed ELSE None,
     persistence_path |-> persistence_path,
     rollback_counter |-> 0, alive |-> TRUE]

\* the exception that leaves ReceiverState.__init__ / SecureElementState.__init__
construct_raises(kind, mode, initial_anchor, seed, persistence_path, bl) ==
    load_raises(fresh(kind, mode, initial_anchor, seed, persistence_path), bl, FALSE)

\* ReceiverState.__init__ / SecureElementState.__init__ with the provisioning
\* inputs.  The load runs inside ReceiverState.__init__; in SecureElementState
\* that is before _rollback_counter exists.  When the load raises no object is
\* constructed (alive = FALSE).
construct(kind, mode, initial_anchor, seed, persistence_path, bl) ==
    LET st0 == fresh(kind, mode, initial_anchor, seed, persistence_path)
    IN IF load_raises(st0, bl, FALSE) # "None"
       THEN [st0 EXCEPT !.alive = FALSE]
       ELSE load_state(st0, bl, FALSE)

\* ---------------------------------------------------------------------
\* validator.py: FragmentValidator and ConstantTimeValidator
\* ---------------------------------------------------------------------
Accept(j) == [result |-> "ACCEPT", index |-> j]
Reject == [result |-> "REJECT", index |-> -1]
Error == [result |-> "ERROR", index |-> -1]
\* the call left by an exception of the durable write
Raised == [result |-> "OSError", index |-> -1]

\* mutant of the recomputation: the seed is always used as the key
expected_mode_a_always_keyed(v, content, current_seed) ==
    compute_fragment(v.domain, content, current_seed, v.fragment_length,
                     current_seed)

\* the fragment recomputed for one index j of the window in Mode A
expected_mode_a(v, content, current_seed) ==
    compute_fragment(v.domain, content, current_seed, v.fragment_length,
                     IF v.use_keyed_mode THEN current_seed ELSE None)

RECURSIVE early_stop_loop_a_reason_code(_, _, _, _, _, _)
\* mutant of the Mode A loop: an exhausted window is reported as an error
early_stop_loop_a_reason_code(v, fragment_rx, content, current_seed, j, hi) ==
    IF j > hi THEN Error
    ELSE IF constant_time_equal(expected_mode_a(v, content, current_seed), fragment_rx)
    THEN Accept(j)
    ELSE early_stop_loop_a_reason_code(v, fragment_rx, content, KDF(current_seed),
                                       j + 1, hi)

RECURSIVE early_stop_loop_a(_, _, _, _, _, _)
\* FragmentValidator._validate_mode_a, the loop from index j on
early_stop_loop_a(v, fragment_rx, content, current_seed, j, hi) ==
    IF j > hi THEN Reject
    ELSE IF constant_time_equal(expected_mode_a(v, content, current_seed), fragment_rx)
    THEN Accept(j)
    ELSE early_stop_loop_a(v, fragment_rx, content, KDF(current_seed), j + 1, hi)

RECURSIVE full_window_loop_a_last_match(_, _, _, _, _, _, _)
\* mutant of the loop of ConstantTimeValidator._validate_mode_a: every match
\* replaces the one kept
full_window_loop_a_last_match(v, fragment_rx, content, current_seed, j, hi, matched_index) ==
    IF j > hi
    THEN (IF matched_index # -1 THEN Accept(matched_index) ELSE Reject)
    ELSE LET hit == constant_time_equal(
                        expected_mode_a(v, content, current_seed), fragment_rx)
             m == IF hit THEN j ELSE matched_index
         IN full_window_loop_a_last_match(v, fragment_rx, content,
                                          KDF(current_seed), j + 1, hi, m)

RECURSIVE full_window_loop_a_truthy(_, _, _, _, _, _, _)
\* mutant of the loop of ConstantTimeValidator._validate_mode_a: the match is
\* tested by truth value (if matched_index:), so that index 0 counts for none
full_window_loop_a_truthy(v, fragment_rx, content, current_seed, j, hi, matched_index) ==
    IF j > hi
    THEN (IF matched_index # -1 /\ matched_index # 0
          THEN Accept(matched_index) ELSE Reject)
    ELSE LET hit == constant_time_equal(
                        expected_mode_a(v, content, current_seed), fragment_rx)
             m == IF hit /\ matched_index = -1 THEN j ELSE matched_index
         IN full_window_loop_a_truthy(v, fragment_rx, content, KDF(current_seed),
                                      j + 1, hi, m)

RECURSIVE full_window_loop_a(_, _, _, _, _, _, _)
\* ConstantTimeValidator._validate_mode_a, the loop from index j on;
\* matched_index is -1 while no index has matched
full_window_loop_a(v, fragment_rx, content, current_seed, j, hi, matched_index) ==
    IF j > hi
    THEN (IF matched_index # -1 THEN Accept(matched_index) ELSE Reject)
    ELSE LET hit == constant_time_equal(
                        expected_mode_a(v, content, current_seed), fragment_rx)
             m == IF hit /\ matched_index = -1 THEN j ELSE matched_index
         IN full_window_loop_a(v, fragment_rx, content, KDF(current_seed),
                               j + 1, hi, m)

\* _validate_mode_a of the validator's class
validate_mode_a(v, fragment_rx, st, content, lo, hi) ==
    IF st.seed = None THEN Error
    ELSE IF v.kind = "ConstantTimeValidator"
    THEN full_window_loop_a(v, fragment_rx, content, st.seed, lo, hi, -1)
    ELSE early_stop_loop_a(v, fragment_rx, content, st.seed, lo, hi)

RECURSIVE loop_b(_, _, _, _, _)
\* FragmentValidator._validate_mode_b, the loop from index j on
loop_b(v, fragment_rx, content, j, hi) ==
    IF j > hi THEN Reject
    ELSE IF constant_time_equal(
                compute_fragment(v.domain, content, Evol(v.evol_func, j),
                                 v.fragment_length, None),
                fragment_rx)
    THEN Accept(j)
    ELSE loop_b(v, fragment_rx, content, j + 1, hi)

\* mutant of _validate_mode_b: the window reaches one index too far
validate_mode_b_long_window(v, fragment_rx, st, content, lo, hi) ==
    IF v.evol_func = "None" THEN Error
    ELSE loop_b(v, fragment_rx, content, lo, hi + 1)

\* FragmentValidator._validate_mode_b (not overridden by the constant-time class)
validate_mode_b(v, fragment_rx, st, content, lo, hi) ==
    IF v.evol_func = "None" THEN Error
    ELSE loop_b(v, fragment_rx, content, lo, hi)

\* mutant of validate: the window stops one index early, [t, t + nu - 1]
validate_short_window(v, fragment_rx, st, content, content_is_prepared) ==
    IF fragment_rx.len # v.fragment_length \div 8 THEN Error
    ELSE LET prepared_content == IF content_is_prepared
                                 THEN prepare_content(content, FALSE)
                                 ELSE prepare_content(content, TRUE)
             lo == st.anchor
             hi == st.anchor + v.window_size - 1
         IN IF st.mode = "A"
            THEN validate_mode_a(v, fragment_rx, st, prepared_content, lo, hi)
            ELSE validate_mode_b(v, fragment_rx, st, prepared_content, lo, hi)

\* mutant of validate: the length of the received fragment is not tested
validate_no_length_check(v, fragment_rx, st, content, content_is_prepared) ==
    LET prepared_content == IF content_is_prepared
                            THEN prepare_content(content, FALSE)
                            ELSE prepare_content(content, TRUE)
        lo == st.anchor
        hi == st.anchor + v.window_size
    IN IF st.mode = "A"
       THEN validate_mode_a(v, fragment_rx, st, prepared_content, lo, hi)
       ELSE validate_mode_b(v, fragment_rx, st, prepared_content, lo, hi)

\* FragmentValidator.validate
validate(v, fragment_rx, st, content, content_is_prepared) ==
    IF fragment_rx.len # v.fragment_length \div 8 THEN Error
    ELSE LET prepared_content == IF content_is_prepared
                                 THEN prepare_content(content, FALSE)
                                 ELSE prepare_content(content, TRUE)
             lo == st.anchor
             hi == st.anchor + v.window_size
         IN IF st.mode = "A"
            THEN validate_mode_a(v, fragment_rx, st, prepared_content, lo, hi)
            ELSE validate_mode_b(v, fragment_rx, st, prepared_content, lo, hi)

RECURSIVE early_stop_comparisons_a(_, _, _, _, _, _, _)
\* FragmentValidator._validate_mode_a: the iterations of the loop from index
\* j on, as counted in _stats["comparisons"] (n so far)
early_stop_comparisons_a(v, fragment_rx, content, current_seed, j, hi, n) ==
    IF j > hi THEN n
    ELSE IF constant_time_equal(expected_mode_a(v, content, current_seed), fragment_rx)
    THEN n + 1
    ELSE early_stop_comparisons_a(v, fragment_rx, content, KDF(current_seed),
                                  j + 1, hi, n + 1)

RECURSIVE full_window_comparisons_a(_, _, _, _, _, _, _)
\* ConstantTimeValidator._validate_mode_a: the iterations of its loop
full_window_comparisons_a(v, fragment_rx, content, current_seed, j, hi, n) ==
    IF j > hi THEN n
    ELSE full_window_comparisons_a(v, fragment_rx, content, KDF(current_seed),
                                   j + 1, hi, n + 1)

RECURSIVE comparisons_b(_, _, _, _, _, _)
\* FragmentValidator._validate_mode_b: the iterations of its loop
comparisons_b(v, fragment_rx, content, j, hi, n) ==
    IF j > hi THEN n
    ELSE IF constant_time_equal(
                compute_fragment(v.domain, content, Evol(v.evol_func, j),
                                 v.fragment_length, None),
                fragment_rx)
    THEN n + 1
    ELSE comparisons_b(v, fragment_rx, content, j + 1, hi, n + 1)

\* the fragment recomputations and comparisons one call of validate performs:
\* what the call adds to _stats["comparisons"].  _validate_mode_b is the one
\* of FragmentValidator for both classes
comparisons(v, fragment_rx, st, content, content_is_prepared) ==
    IF fragment_rx.len # v.fragment_length \div 8 THEN 0
    ELSE LET prepared_content == IF content_is_prepared
                                 THEN prepare_content(content, FALSE)
                                 ELSE prepare_content(content, TRUE)
             lo == st.anchor
             hi == st.anchor + v.window_size
         IN IF st.mode = "A"
            THEN IF st.seed = None THEN 0
                 ELSE IF v.kind = "ConstantTimeValidator"
                 THEN full_window_comparisons_a(v, fragment_rx, prepared_content,
                                                st.seed, lo, hi, 0)
                 ELSE early_stop_comparisons_a(v, fragment_rx, prepared_content,
                                               st.seed, lo, hi, 0)
            ELSE IF v.evol_func = "None" THEN 0
                 ELSE comparisons_b(v, fragment_rx, prepared_content, lo, hi, 0)

\* mutant of validate_and_commit: the seed committed is that of the matched
\* index, not of the index after it
validate_and_commit_seed_of_match(v, fragment_rx, st, bl, content, content_is_prepared, write_ok) ==
    LET r == validate(v, fragment_rx, st, content, content_is_prepared)
    IN IF r.result = "ACCEPT"
       THEN LET new_seed == IF st.mode = "A"
                            THEN get_seed_for_index(st, r.index)
                            ELSE None
                a == advance(st, bl, r.index + 1, new_seed, write_ok)
            IN [state |-> a.state, blob |-> a.blob,
                out |-> IF a.ret = "OSError" THEN Raised
                        ELSE IF a.ret = "False" THEN Error
                        ELSE r]
       ELSE [state |-> st, blob |-> bl, out |-> r]

\* FragmentValidator.validate_and_commit: the state, the blob and the outcome
validate_and_commit(v, fragment_rx, st, bl, content, content_is_prepared, write_ok) ==
    LET r == validate(v, fragment_rx, st, content, content_is_prepared)
    IN IF r.result = "ACCEPT"
       THEN LET new_seed == IF st.mode = "A"
                            THEN get_seed_for_index(st, r.index + 1)
                            ELSE None
                a == advance(st, bl, r.index + 1, new_seed, write_ok)
            IN [state |-> a.state, blob |-> a.blob,
                out |-> IF a.ret = "OSError" THEN Raised
                        ELSE IF a.ret = "False" THEN Error
                        ELSE r]
       ELSE [state |-> st, blob |-> bl, out |-> r]

\* ---------------------------------------------------------------------
\* state.py: _save_state statement by statement
\* ---------------------------------------------------------------------
\* no save in progress.  pc is the statement a save has reached ("begun":
\* _save_state entered, "open": the temp file is open for writing, "dumped":
\* json.dump and flush are done, "synced": fsync is done and the file is
\* closed, "idle": no save in progress); temp is the content of the temp
\* file; previous and new are the blob before the save and the blob the save
\* writes; stopped tells that a process was stopped in the middle of a save
NoSave ==
    [pc |-> "idle", temp |-> NoBlob, previous |-> NoBlob, new |-> NoBlob,
     stopped |-> FALSE]

\* a file that holds a prefix of the text of bl (nothing at all right after
\* open(..., 'w'))
partial(bl) == [bl EXCEPT !.form = "partial"]

\* the text in the file is whole: all of what one _save_state wrote
complete(bl) == bl.form # "partial"

\* mutant of temp_path: the text is written straight to the persistence path
temp_path_is_target(st) == "path"

\* temp_path = self._persistence_path + ".tmp"
temp_path(st) == "path.tmp"

\* the two files as one record
files(bl, tmp) == [target |-> bl, temp |-> tmp]

\* the files after the text of the file at p has become content
file_written(f, p, content) ==
    IF p = "path.tmp" THEN [f EXCEPT !.temp = content]
    ELSE [f EXCEPT !.target = content]

\* os.replace(temp_path, persistence_path): one atomic rename; when there is
\* no file at temp_path it raises and changes nothing
os_replace(f, p) ==
    IF p = "path.tmp"
    THEN IF f.temp.exists THEN [target |-> f.temp, temp |-> NoBlob] ELSE f
    ELSE f

\* the handler of ReceiverState._save_state: the temp file is removed when
\* it exists; SecureElementState._save_state has no handler
save_cleanup(st, f) ==
    IF st.kind = "SecureElementState" THEN f
    ELSE file_written(f, temp_path(st), NoBlob)

\* ---------------------------------------------------------------------
\* The seed buffers as bytes (crypto.py secure_erase and KDF, fragment.py and
\* state.py advance)
\* ---------------------------------------------------------------------
\* generate_seed(length=32)
DEFAULT_SEED_LENGTH == 32

\* the lengths (bytes) of the seed the endpoints may be provisioned with
SeedLengths ==
    {DEFAULT_SEED_LENGTH \div 2, DEFAULT_SEED_LENGTH, 2 * DEFAULT_SEED_LENGTH}

\* the content of a buffer whose bytes are all 0
Zeros == [root |-> "zeros", n |-> 0]

\* a bytearray: what it holds and how many bytes
Buffer(content, len) == [content |-> content, len |-> len]

\* no buffer
NoBuffer == Buffer(None, 0)

\* the memory of two endpoints provisioned by generate_seed(), before any
\* advance: the length of the seed K_0 they were given, the lengths of
\* builder._seed and state._seed, and the buffers that held the seed before
\* the last advance of each (none yet)
DefaultMemory ==
    [provisioned_seed_len |-> DEFAULT_SEED_LENGTH,
     builder_seed_len |-> DEFAULT_SEED_LENGTH,
     state_seed_len |-> DEFAULT_SEED_LENGTH,
     builder_old |-> NoBuffer, state_old |-> NoBuffer]

\* mutant of secure_erase: the buffer is left as it is
secure_erase_skipped(data) == data

\* secure_erase(data): every byte overwritten, at last with 0
secure_erase(data) == Buffer(Zeros, data.len)

\* len(KDF(seed)) for a seed of seed_len bytes: the HMAC-SHA256 digest
KDF_length(seed_len) == SHA256_DIGEST_BYTES

\* len(state.get_seed_for_index(index)): a copy of the seed for the anchor
\* itself, the output of KDF beyond it
get_seed_for_index_length(st, seed_len, index) ==
    IF index - st.anchor <= 0 THEN seed_len ELSE KDF_length(seed_len)

\* FragmentBuilder.advance: next_seed = KDF(bytes(self._seed)),
\* secure_erase(self._seed), self._seed = bytearray(next_seed)
builder_advance_memory(b, m) ==
    IF b.mode = "A"
    THEN [m EXCEPT !.builder_old = secure_erase(Buffer(b.seed, m.builder_seed_len)),
                   !.builder_seed_len = KDF_length(m.builder_seed_len)]
    ELSE m

\* ReceiverState.advance: old_seed = self._seed, self._seed =
\* bytearray(new_seed), secure_erase(old_seed); a refused call touches nothing
advance_memory(st, m, new_anchor, new_seed, new_seed_len) ==
    IF new_anchor <= st.anchor THEN m
    ELSE IF st.mode = "A" /\ new_seed = None THEN m
    ELSE IF st.mode = "A"
    THEN [m EXCEPT !.state_old = secure_erase(Buffer(st.seed, m.state_seed_len)),
                   !.state_seed_len = new_seed_len]
    ELSE m

\* ---------------------------------------------------------------------
\* Inputs of the calls
\* ---------------------------------------------------------------------
\* no fragment (a call that takes and returns none)
NoFragment ==
    [len |-> 0, prf |-> "None", key |-> None,
     msg |-> encode(Domain, prepare_content("", FALSE), None)]
\* bytes of the right length that no endpoint computed
RandomFragment ==
    [len |-> DEFAULT_FRAGMENT_LENGTH \div 8, prf |-> "random", key |-> None,
     msg |-> encode(Domain, prepare_content("", FALSE), None)]
\* a fragment one byte short
ShortFragment ==
    [len |-> DEFAULT_FRAGMENT_LENGTH \div 8 - 1, prf |-> "random", key |-> None,
     msg |-> encode(Domain, prepare_content("", FALSE), None)]

\* a fragment one byte too long
LongFragment ==
    [len |-> DEFAULT_FRAGMENT_LENGTH \div 8 + 1, prf |-> "random", key |-> None,
     msg |-> encode(Domain, prepare_content("", FALSE), None)]

\* the fragment the sender built (or could have built) at index i for payload S
SenderFragment(i, S) == build(builder_at(builder, i), S, FALSE)

\* what the untrusted channel can deliver: any fragment of an index the sender
\* has reached, in any order and any number of times, or arbitrary bytes
ChannelFragments ==
    {SenderFragment(i, S) : i \in 0..builder.index, S \in Payloads}
        \cup {RandomFragment, ShortFragment, LongFragment}

\* the initial_anchor a receiver may be provisioned with (with the seed of
\* that index)
InitialAnchors == {0, 2}

\* whether a durable write succeeds is decided by the environment
WriteOutcomes == IF state.persistence_path THEN BOOLEAN ELSE {TRUE}

\* the seed K_i of the deployment's chain
SeedAt(i) == KDFn(K0, i)

\* seeds an application may hand to state.advance for new_anchor
SeedArgs(new_anchor) == {None, SeedAt(new_anchor), ForeignSeed}

\* the ways the text of the blob can be damaged: text json.load refuses, JSON
\* that is not an object, the "seed" key missing, a seed that is not hex, an
\* anchor that is not an integer
BlobDamages ==
    {"invalid_json", "not_object", "seed_missing", "seed_not_hex", "anchor_not_int"}

\* the blob bl damaged in the way d
damaged(bl, d) ==
    IF d = "seed_missing" THEN [bl EXCEPT !.seed = None]
    ELSE [bl EXCEPT !.form = d]

\* the fragment lengths (bits) a builder may be constructed with: the default
\* (one digest), one below the minimum, two digests, two digests and a byte
\* (extension, then truncation), and one that is not a multiple of 8
FragmentLengths ==
    {DEFAULT_FRAGMENT_LENGTH, MinFragmentLength \div 2,
     2 * DEFAULT_FRAGMENT_LENGTH, 2 * DEFAULT_FRAGMENT_LENGTH + 8,
     DEFAULT_FRAGMENT_LENGTH + 4}

\* the indices get_seed_for_index is asked for: below, at and beyond any anchor
SeedIndices == 0..(MaxIndex + 3)

\* the record of a call: its fragment (returned by build, submitted to the
\* validator) and payload, the arguments of state.advance, the outcome, and
\* the receiver and the blob before the call
Call(op, frag, content, new_anchor, new_seed, out) ==
    [op |-> op, frag |-> frag, content |-> content,
     new_anchor |-> new_anchor, new_seed |-> new_seed, out |-> out,
     pre |-> state, pre_blob |-> blob]

\* ---------------------------------------------------------------------
\* validator.py: validate_and_commit statement by statement, for callers
\* that share one receiver state
\* ---------------------------------------------------------------------
\* the callers (threads) that may be inside validate_and_commit together
Callers == {1, 2}

\* a caller outside validate_and_commit.  pc is the statement its call is at
\* ("validate", "get_seed", "advance", "returned"); frag and content are its
\* arguments; matched is the index its validation matched; new_seed the seed
\* it derived; out what the call returned; advanced tells whether its
\* state.advance changed the receiver; anchor_seen is the anchor at its
\* latest statement
IdleCall ==
    [pc |-> "idle", frag |-> NoFragment, content |-> "", matched |-> -1,
     new_seed |-> None, out |-> Reject, advanced |-> FALSE, anchor_seen |-> 0]

\* no caller is inside validate_and_commit
NoCalls == [c \in Callers |-> IdleCall]

\* ---------------------------------------------------------------------
\* Initial state: both endpoints provisioned identically, nothing persisted
\* ---------------------------------------------------------------------
Init ==
    \E mode \in {"A", "B"}, keyed \in BOOLEAN, evol \in EvolFuncs,
       kind \in {"ReceiverState", "SecureElementState"},
       path \in BOOLEAN, nu \in 0..MaxNu,
       vkind \in {"FragmentValidator", "ConstantTimeValidator"} :
        /\ mode = "A" => evol = "counter"
        /\ mode = "B" => keyed
        /\ kind = "SecureElementState" => path
        /\ builder = [mode |-> mode, index |-> 0,
                      seed |-> IF mode = "A" THEN K0 ELSE None,
                      evol_func |-> IF mode = "B" THEN evol ELSE "None",
                      domain |-> Domain,
                      fragment_length |-> DEFAULT_FRAGMENT_LENGTH,
                      use_keyed_mode |-> keyed]
        /\ state = construct(kind, mode, 0, K0, path, NoBlob)
        /\ validator = [kind |-> vkind, domain |-> Domain, window_size |-> nu,
                        fragment_length |-> DEFAULT_FRAGMENT_LENGTH,
                        use_keyed_mode |-> keyed,
                        evol_func |-> IF mode = "B" THEN evol ELSE "None"]
        /\ blob = NoBlob
        /\ last = [op |-> "init", frag |-> NoFragment, content |-> "",
                   new_anchor |-> 0, new_seed |-> None, out |-> Reject,
                   pre |-> construct(kind, mode, 0, K0, path, NoBlob),
                   pre_blob |-> NoBlob]
        /\ accepted = {}
        /\ snapshot = NoBlob
        /\ crypto = NoCall
        /\ save = NoSave
        /\ memory = DefaultMemory
        /\ calls = NoCalls

\* ---------------------------------------------------------------------
\* Actions
\* ---------------------------------------------------------------------
\* builder.build(payload)
BuilderBuild ==
    \E S \in Payloads :
        /\ last' = Call("build", build(builder, S, FALSE), S, 0, None,
                        [result |-> "FRAGMENT", index |-> -1])
        /\ UNCHANGED <<builder, state, validator, blob, accepted, snapshot, crypto, save, memory, calls>>

\* builder.advance()
BuilderAdvance ==
    /\ builder.index < MaxIndex
    /\ builder' = builder_advance(builder)
    /\ last' = Call("builder_advance", NoFragment, "", 0, None,
                    [result |-> "None", index |-> -1])
    /\ UNCHANGED <<state, validator, blob, accepted, snapshot, crypto, save, memory, calls>>

\* validator.validate(fragment, state, payload)
Validate ==
    \E f \in ChannelFragments, S \in Payloads :
        /\ state.alive
        /\ last' = Call("validate", f, S, 0, None,
                        validate(validator, f, state, S, FALSE))
        /\ UNCHANGED <<builder, state, validator, blob, accepted, snapshot, crypto, save, memory, calls>>

\* validator.validate_and_commit(fragment, state, payload)
ValidateAndCommitCall(f, S, write_ok) ==
    LET r == validate_and_commit(validator, f, state, blob, S, FALSE, write_ok)
    IN /\ state.alive
       /\ state' = r.state
       /\ blob' = r.blob
       /\ last' = Call("validate_and_commit", f, S, 0, None, r.out)
       /\ UNCHANGED <<builder, validator, snapshot, crypto, save, memory, calls>>

ValidateAndCommit ==
    \E f \in ChannelFragments, S \in Payloads, write_ok \in WriteOutcomes :
        /\ ValidateAndCommitCall(f, S, write_ok)
        /\ UNCHANGED accepted

\* the same call, with the accepted submission remembered
ValidateAndCommitTracked ==
    \E f \in ChannelFragments, S \in Payloads, write_ok \in WriteOutcomes :
        /\ ValidateAndCommitCall(f, S, write_ok)
        /\ accepted' = IF last'.out.result = "ACCEPT"
                       THEN accepted \cup {[frag |-> f, content |-> S]}
                       ELSE accepted

\* the sender's current fragment delivered at once with its payload (the
\* anchor is capped: a receiver whose seed lags behind its anchor accepts the
\* same fragment again and again)
ValidateAndCommitCurrent ==
    \E S \in Payloads, write_ok \in WriteOutcomes :
        /\ state.anchor <= MaxIndex
        /\ ValidateAndCommitCall(build(builder, S, FALSE), S, write_ok)
        /\ UNCHANGED accepted

\* state.advance(new_anchor, new_seed) called by the application
Advance ==
    \E new_anchor \in 0..(MaxIndex + 1), write_ok \in WriteOutcomes :
        \E new_seed \in SeedArgs(new_anchor) :
            LET r == advance(state, blob, new_anchor, new_seed, write_ok)
            IN /\ state.alive
               /\ state' = r.state
               /\ blob' = r.blob
               /\ last' = Call("advance", NoFragment, "", new_anchor, new_seed,
                               [result |-> r.ret, index |-> -1])
               /\ UNCHANGED <<builder, validator, accepted, snapshot, crypto, save, memory, calls>>

\* process restart: a fresh state object from the provisioning inputs and the
\* same persistence path, which loads the blob when there is one
Construct ==
    \E initial_anchor \in InitialAnchors :
        LET st0 == construct(state.kind, state.mode, initial_anchor,
                             SeedAt(initial_anchor), state.persistence_path, NoBlob)
            st1 == construct(state.kind, state.mode, initial_anchor,
                             SeedAt(initial_anchor), state.persistence_path, blob)
        IN /\ state' = st1
           /\ last' = [Call("construct", NoFragment, "", initial_anchor,
                            SeedAt(initial_anchor),
                            [result |-> IF st1.alive THEN "constructed"
                                        ELSE construct_raises(
                                                 state.kind, state.mode,
                                                 initial_anchor,
                                                 SeedAt(initial_anchor),
                                                 state.persistence_path, blob),
                             index |-> -1])
                       EXCEPT !.pre = st0]
           /\ accepted' = IF state.persistence_path THEN accepted ELSE {}
           /\ UNCHANGED <<builder, validator, blob, snapshot, crypto, save, memory, calls>>

\* restored = FragmentBuilder.from_state(builder.get_state(), evol_func): the
\* sender restarts from its saved state, with the Evol of its provisioning
BuilderRestore ==
    /\ builder' = from_state(get_state(builder), builder.evol_func)
    /\ last' = Call("builder_restore", NoFragment, "", 0, None,
                    [result |-> "None", index |-> -1])
    /\ UNCHANGED <<state, validator, blob, accepted, snapshot, crypto, save, memory, calls>>

\* FragmentBuilder(domain, mode, seed, evol_func, fragment_length,
\* use_keyed_mode): when __init__ raises, the sender keeps the builder it had
BuilderConstruct ==
    \E mode \in {"A", "B"}, seed \in {None, K0}, evol_func \in EvolFuncs \cup {"None"},
       fragment_length \in FragmentLengths, use_keyed_mode \in BOOLEAN :
        LET raises == FragmentBuilder_raises(mode, seed, evol_func)
        IN /\ builder' = IF raises = "None"
                         THEN FragmentBuilder_init(Domain, mode, seed, evol_func,
                                                   fragment_length, use_keyed_mode)
                         ELSE builder
           /\ last' = Call("builder_construct", NoFragment, "", fragment_length,
                           seed, [result |-> raises, index |-> -1])
           /\ UNCHANGED <<state, validator, blob, accepted, snapshot, crypto, save, memory, calls>>

\* state._load_state() on the live object
Load ==
    /\ state.alive
    /\ state.persistence_path
    /\ state' = load_state(state, blob, TRUE)
    /\ last' = Call("load", NoFragment, "", 0, None,
                    [result |-> load_raises(state, blob, TRUE), index |-> -1])
    /\ UNCHANGED <<builder, validator, blob, accepted, snapshot, crypto, save, memory, calls>>

\* somebody keeps a copy of the blob as the receiver wrote it
SnapshotBlob ==
    /\ blob.exists
    /\ blob.form = "ok"
    /\ blob # snapshot
    /\ snapshot' = blob
    /\ UNCHANGED <<builder, state, validator, blob, last, accepted, crypto, save, memory, calls>>

\* the copy is put back at the persistence path
RestoreBlob ==
    /\ snapshot.exists
    /\ blob # snapshot
    /\ blob' = snapshot
    /\ UNCHANGED <<builder, state, validator, last, accepted, snapshot, crypto, save, memory, calls>>

\* the text of the blob is damaged
CorruptBlob ==
    \E d \in BlobDamages :
        /\ blob.exists
        /\ blob.form = "ok"
        /\ d \in {"seed_missing", "seed_not_hex"} => blob.seed # None
        /\ blob' = damaged(blob, d)
        /\ UNCHANGED <<builder, state, validator, last, accepted, snapshot, crypto, save, memory, calls>>

\* encode(domain, content, evolution_param) called on byte strings
EncodeCall ==
    \E domain \in ByteStrings, content \in ByteStrings,
       evolution_param \in ByteStrings :
        /\ crypto' = [NoCall EXCEPT !.f = "encode", !.domain = domain,
                                    !.content = content,
                                    !.evolution_param = evolution_param,
                                    !.encoded = encode_bytes(domain, content,
                                                             evolution_param)]
        /\ UNCHANGED <<builder, state, validator, blob, last, accepted,
                     snapshot, save, memory, calls>>

\* KDF(seed) or KDF(seed, context) called on byte strings
KDFCall ==
    \E seed \in ByteStrings, context \in Contexts :
        /\ crypto' = [NoCall EXCEPT !.f = "KDF", !.seed = seed,
                                    !.context = context,
                                    !.digest = KDF_context(seed, context)]
        /\ UNCHANGED <<builder, state, validator, blob, last, accepted,
                     snapshot, save, memory, calls>>

\* state.advance(t + 1, K_{t+1}) up to its call of _save_state: the memory
\* is updated, nothing is written yet
SaveBegin ==
    LET new_anchor == state.anchor + 1
        r == advance(state, blob, new_anchor,
                     get_seed_for_index(state, new_anchor), FALSE)
    IN /\ state.alive
       /\ state.persistence_path
       /\ save.pc = "idle"
       /\ state.anchor <= MaxIndex
       /\ state' = r.state
       /\ save' = [save EXCEPT !.pc = "begun", !.previous = blob,
                               !.new = save_state(r.state)]
       /\ UNCHANGED <<builder, validator, blob, last, accepted, snapshot, crypto, memory, calls>>

\* open(temp_path, 'w'): the file is created, or emptied when it exists
SaveOpen ==
    LET f == file_written(files(blob, save.temp), temp_path(state),
                          partial(save.new))
    IN /\ save.pc = "begun"
       /\ blob' = f.target
       /\ save' = [save EXCEPT !.pc = "open", !.temp = f.temp]
       /\ UNCHANGED <<builder, state, validator, last, accepted, snapshot, crypto, memory, calls>>

\* json.dump(state, f); f.flush(): the whole text is in the file
SaveDump ==
    LET f == file_written(files(blob, save.temp), temp_path(state), save.new)
    IN /\ save.pc = "open"
       /\ blob' = f.target
       /\ save' = [save EXCEPT !.pc = "dumped", !.temp = f.temp]
       /\ UNCHANGED <<builder, state, validator, last, accepted, snapshot, crypto, memory, calls>>

\* os.fsync(f.fileno()) and the end of the with block
SaveSync ==
    /\ save.pc = "dumped"
    /\ save' = [save EXCEPT !.pc = "synced"]
    /\ UNCHANGED <<builder, state, validator, blob, last, accepted, snapshot, crypto, memory, calls>>

\* os.replace(temp_path, persistence_path), the return of _save_state and of
\* advance (SecureElementState.advance then counts the advance)
SaveReplace ==
    LET f == os_replace(files(blob, save.temp), temp_path(state))
    IN /\ save.pc = "synced"
       /\ blob' = f.target
       /\ save' = [save EXCEPT !.pc = "idle", !.temp = f.temp]
       /\ state' = IF state.kind = "SecureElementState"
                   THEN [state EXCEPT !.rollback_counter = @ + 1]
                   ELSE state
       /\ UNCHANGED <<builder, validator, last, accepted, snapshot, crypto, memory, calls>>

\* the statement the save has reached raises (open, json.dump or flush in the
\* middle of the text, fsync, os.replace): the handler runs, when the class
\* has one, and the exception leaves advance
SaveFail ==
    LET f == save_cleanup(state, files(blob, save.temp))
    IN /\ save.pc \in {"begun", "open", "dumped", "synced"}
       /\ blob' = f.target
       /\ save' = [save EXCEPT !.pc = "idle", !.temp = f.temp]
       /\ UNCHANGED <<builder, state, validator, last, accepted, snapshot, crypto, memory, calls>>

\* the process is stopped where the save is: the files stay as they are and
\* the next process constructs its state from the provisioning inputs and
\* the persistence path
SaveStop ==
    /\ save.pc \in {"begun", "open", "dumped", "synced"}
    /\ state' = construct(state.kind, state.mode, 0, K0,
                          state.persistence_path, blob)
    /\ save' = [save EXCEPT !.pc = "idle", !.stopped = TRUE]
    /\ UNCHANGED <<builder, validator, blob, last, accepted, snapshot, crypto, memory, calls>>

\* state.get_seed_for_index(index): the call works on a copy of the seed and
\* assigns nothing; the index and the value returned are recorded as the
\* new_anchor and the new_seed of the call
GetSeedForIndex ==
    \E index \in SeedIndices :
        LET seed == get_seed_for_index(state, index)
        IN /\ state.alive
           /\ last' = Call("get_seed_for_index", NoFragment, "", index, seed,
                           [result |-> IF seed = None THEN "None" ELSE "bytes",
                            index |-> -1])
           /\ UNCHANGED <<builder, state, validator, blob, accepted, snapshot, crypto, save, memory, calls>>

\* both endpoints are constructed anew with a seed K_0 of some length
\* (self._seed = bytearray(seed) in both constructors)
ProvisionSeed ==
    \E len \in SeedLengths :
        /\ builder.mode = "A"
        /\ builder.index = 0
        /\ state.anchor = 0
        /\ ~blob.exists
        /\ memory' = [DefaultMemory EXCEPT !.provisioned_seed_len = len,
                                           !.builder_seed_len = len,
                                           !.state_seed_len = len]
        /\ UNCHANGED <<builder, state, validator, blob, last, accepted, snapshot, crypto, save, calls>>

\* builder.advance(), with the seed buffers
BuilderAdvanceMemory ==
    /\ builder.index < MaxIndex
    /\ builder' = builder_advance(builder)
    /\ memory' = builder_advance_memory(builder, memory)
    /\ last' = Call("builder_advance", NoFragment, "", 0, None,
                    [result |-> "None", index |-> -1])
    /\ UNCHANGED <<state, validator, blob, accepted, snapshot, crypto, save, calls>>

\* validator.validate_and_commit(fragment, state, payload) on the sender's
\* current fragment, with the seed buffers
ValidateAndCommitMemory ==
    \E S \in Payloads, write_ok \in WriteOutcomes :
        LET f == build(builder, S, FALSE)
            v == validate(validator, f, state, S, FALSE)
            r == validate_and_commit(validator, f, state, blob, S, FALSE, write_ok)
        IN /\ state.alive
           /\ state.anchor <= MaxIndex
           /\ state' = r.state
           /\ blob' = r.blob
           /\ memory' = IF v.result = "ACCEPT"
                        THEN advance_memory(
                                 state, memory, v.index + 1,
                                 get_seed_for_index(state, v.index + 1),
                                 get_seed_for_index_length(
                                     state, memory.state_seed_len, v.index + 1))
                        ELSE memory
           /\ last' = Call("validate_and_commit", f, S, 0, None, r.out)
           /\ UNCHANGED <<builder, validator, accepted, snapshot, crypto, save, calls>>

\* state.advance(new_anchor, new_seed) called by the application, with the
\* seed buffers; the seed handed over has the length of the seed derived for
\* new_anchor
AdvanceMemory ==
    \E new_anchor \in 0..(MaxIndex + 1), write_ok \in WriteOutcomes :
        \E new_seed \in SeedArgs(new_anchor) :
            LET r == advance(state, blob, new_anchor, new_seed, write_ok)
            IN /\ state.alive
               /\ state' = r.state
               /\ blob' = r.blob
               /\ memory' = advance_memory(
                                state, memory, new_anchor, new_seed,
                                get_seed_for_index_length(
                                    state, memory.state_seed_len, new_anchor))
               /\ last' = Call("advance", NoFragment, "", new_anchor, new_seed,
                               [result |-> r.ret, index |-> -1])
               /\ UNCHANGED <<builder, validator, accepted, snapshot, crypto, save, calls>>

\* a caller enters validate_and_commit(fragment, state, payload)
CallBegin ==
    \E c \in Callers, f \in ChannelFragments, S \in Payloads :
        /\ calls[c].pc = "idle"
        /\ calls' = [calls EXCEPT ![c] = [IdleCall EXCEPT !.pc = "validate",
                                                         !.frag = f,
                                                         !.content = S,
                                                         !.anchor_seen = state.anchor]]
        /\ UNCHANGED <<builder, state, validator, blob, last, accepted, snapshot, crypto, save, memory>>

\* result, matched_index = self.validate(fragment_rx, state, content): the
\* call returns what validate returned unless it is ACCEPT
CallValidate ==
    \E c \in Callers :
        LET r == validate(validator, calls[c].frag, state, calls[c].content, FALSE)
        IN /\ calls[c].pc = "validate"
           /\ calls' = [calls EXCEPT
                  ![c].pc = IF r.result # "ACCEPT" THEN "returned"
                            ELSE IF state.mode = "A" THEN "get_seed"
                            ELSE "advance",
                  ![c].matched = r.index,
                  ![c].out = r,
                  ![c].anchor_seen = state.anchor]
           /\ UNCHANGED <<builder, state, validator, blob, last, accepted, snapshot, crypto, save, memory>>

\* new_seed = state.get_seed_for_index(new_anchor), in Mode A
CallGetSeed ==
    \E c \in Callers :
        /\ calls[c].pc = "get_seed"
        /\ calls' = [calls EXCEPT
               ![c].pc = "advance",
               ![c].new_seed = get_seed_for_index(state, calls[c].matched + 1),
               ![c].anchor_seen = state.anchor]
        /\ UNCHANGED <<builder, state, validator, blob, last, accepted, snapshot, crypto, save, memory>>

\* success = state.advance(new_anchor, new_seed) and the return of the call
CallAdvance ==
    \E c \in Callers, write_ok \in WriteOutcomes :
        LET a == advance(state, blob, calls[c].matched + 1, calls[c].new_seed,
                         write_ok)
        IN /\ calls[c].pc = "advance"
           /\ state' = a.state
           /\ blob' = a.blob
           /\ calls' = [calls EXCEPT
                  ![c].pc = "returned",
                  ![c].out = IF a.ret = "OSError" THEN Raised
                             ELSE IF a.ret = "False" THEN Error
                             ELSE Accept(calls[c].matched),
                  ![c].advanced = (a.state # state),
                  ![c].anchor_seen = a.state.anchor]
           /\ UNCHANGED <<builder, validator, last, accepted, snapshot, crypto, save, memory>>

\* the callers have their answers and leave
CallsReturn ==
    /\ \A c \in Callers : calls[c].pc \in {"idle", "returned"}
    /\ \E c \in Callers : calls[c].pc = "returned"
    /\ calls' = NoCalls
    /\ UNCHANGED <<builder, state, validator, blob, last, accepted, snapshot, crypto, save, memory>>

Next ==
    \/ BuilderBuild
    \/ BuilderAdvance
    \/ Validate
    \/ ValidateAndCommit
    \/ Advance
    \/ Construct

Spec == Init /\ [][Next]_vars

\* the protocol run on its own (no application call of state.advance), with
\* the accepted submissions remembered
NextReplay ==
    \/ BuilderBuild
    \/ BuilderAdvance
    \/ Validate
    \/ ValidateAndCommitTracked
    \/ Construct

SpecReplay == Init /\ [][NextReplay]_vars

\* the receiver and its storage: commits, restarts, loads, and what can
\* happen to the blob between them.  Every receiver has a persistence path;
\* the window and the validator class, which play no part in the storage,
\* are the defaults of the demo with the narrowest window
InitStore ==
    /\ Init
    /\ state.persistence_path
    /\ validator.window_size = 0
    /\ validator.kind = "FragmentValidator"
    /\ validator.use_keyed_mode
    /\ validator.evol_func # "epoch"

NextStore ==
    \/ BuilderAdvance
    \/ ValidateAndCommitCurrent
    \/ Construct
    \/ Load
    \/ SnapshotBlob
    \/ RestoreBlob
    \/ CorruptBlob

SpecStore == InitStore /\ [][NextStore]_vars

\* the sender on its own: construction, build, advance, save and restore
NextSender ==
    \/ BuilderConstruct
    \/ BuilderBuild
    \/ BuilderAdvance
    \/ BuilderRestore

SpecSender == Init /\ [][NextSender]_vars

\* the functions of crypto.py called on their own, beside one provisioned pair
InitCrypto ==
    /\ Init
    /\ state.mode = "A"
    /\ state.kind = "ReceiverState"
    /\ ~state.persistence_path
    /\ validator.window_size = 0
    /\ validator.kind = "FragmentValidator"
    /\ validator.use_keyed_mode

NextCrypto ==
    \/ EncodeCall
    \/ KDFCall

SpecCrypto == InitCrypto /\ [][NextCrypto]_vars

\* one receiver with a persistence path whose saves are taken statement by
\* statement, failing or stopped at any of them
NextSave ==
    \/ SaveBegin
    \/ SaveOpen
    \/ SaveDump
    \/ SaveSync
    \/ SaveReplace
    \/ SaveFail
    \/ SaveStop

SpecSave == InitStore /\ [][NextSave]_vars

\* the receiver asked for seeds between its commits and restarts
NextSeed ==
    \/ BuilderAdvance
    \/ ValidateAndCommitCurrent
    \/ Construct
    \/ GetSeedForIndex

SpecSeed == Init /\ [][NextSeed]_vars

\* endpoints whose windows hold collisions: in Mode A both are provisioned
\* with the pathological seed, in Mode B with the Evol that repeats
InitTie ==
    \E mode \in {"A", "B"}, keyed \in BOOLEAN,
       kind \in {"ReceiverState", "SecureElementState"},
       path \in BOOLEAN, nu \in 0..MaxNu,
       vkind \in {"FragmentValidator", "ConstantTimeValidator"} :
        /\ mode = "B" => keyed
        /\ kind = "SecureElementState" => path
        /\ builder = [mode |-> mode, index |-> 0,
                      seed |-> IF mode = "A" THEN CyclicSeed ELSE None,
                      evol_func |-> IF mode = "B" THEN "epoch" ELSE "None",
                      domain |-> Domain,
                      fragment_length |-> DEFAULT_FRAGMENT_LENGTH,
                      use_keyed_mode |-> keyed]
        /\ state = construct(kind, mode, 0, CyclicSeed, path, NoBlob)
        /\ validator = [kind |-> vkind, domain |-> Domain, window_size |-> nu,
                        fragment_length |-> DEFAULT_FRAGMENT_LENGTH,
                        use_keyed_mode |-> keyed,
                        evol_func |-> IF mode = "B" THEN "epoch" ELSE "None"]
        /\ blob = NoBlob
        /\ last = [op |-> "init", frag |-> NoFragment, content |-> "",
                   new_anchor |-> 0, new_seed |-> None, out |-> Reject,
                   pre |-> construct(kind, mode, 0, CyclicSeed, path, NoBlob),
                   pre_blob |-> NoBlob]
        /\ accepted = {}
        /\ snapshot = NoBlob
        /\ crypto = NoCall
        /\ save = NoSave
        /\ memory = DefaultMemory
        /\ calls = NoCalls

NextTie ==
    \/ BuilderAdvance
    \/ Validate
    \/ ValidateAndCommitCurrent

SpecTie == InitTie /\ [][NextTie]_vars

\* the validator at work: fragments validated and committed while the sender
\* moves on and the application advances the receiver itself
NextValidation ==
    \/ BuilderAdvance
    \/ Validate
    \/ ValidateAndCommit
    \/ Advance

SpecValidation == Init /\ [][NextValidation]_vars

\* the validator class and the keying of the fragments play no part in what
\* the buffers hold: they are the defaults
InitMemory ==
    /\ Init
    /\ validator.kind = "FragmentValidator"
    /\ validator.use_keyed_mode

\* the two endpoints with their seed buffers: provisioning, sender advances,
\* commits, application advances and seed derivations
NextMemory ==
    \/ ProvisionSeed
    \/ BuilderAdvanceMemory
    \/ ValidateAndCommitMemory
    \/ AdvanceMemory
    \/ GetSeedForIndex

SpecMemory == InitMemory /\ [][NextMemory]_vars

\* the receiver states that commits alone lead to, for the comparison of the
\* two validator classes on each of them
NextCommit ==
    \/ BuilderAdvance
    \/ ValidateAndCommit

SpecCommit == Init /\ [][NextCommit]_vars

\* two callers inside validate_and_commit on one receiver state, taking
\* turns between its statements while the sender moves on
InitConcurrent ==
    /\ Init
    /\ validator.kind = "FragmentValidator"

NextConcurrent ==
    \/ BuilderAdvance
    \/ CallBegin
    \/ CallValidate
    \/ CallGetSeed
    \/ CallAdvance
    \/ CallsReturn

SpecConcurrent == InitConcurrent /\ [][NextConcurrent]_vars

\* ---------------------------------------------------------------------
\* Notions the properties are stated with
\* ---------------------------------------------------------------------
\* both endpoints hold the same provisioning (domain, mode, length, keying, Evol)
SameProvisioning ==
    /\ builder.mode = state.mode
    /\ builder.domain = validator.domain
    /\ builder.fragment_length = validator.fragment_length
    /\ builder.use_keyed_mode = validator.use_keyed_mode
    /\ builder.evol_func = validator.evol_func

\* the receiver is on the sender's chain: its seed is K_t for its anchor t
InSync ==
    /\ state.alive
    /\ SameProvisioning
    /\ state.mode = "A" =>
           /\ state.seed = SeedAt(state.anchor)
           /\ builder.seed = SeedAt(builder.index)

\* sender index = receiver anchor
Aligned == InSync /\ builder.index = state.anchor

\* Evol gives distinct parameters to distinct indices (always so in Mode A,
\* where the chain of seeds plays this part)
InjectiveEvolution == state.mode = "A" \/ validator.evol_func = "counter"

\* a call of the receiver that committed an advance
Committed ==
    \/ last.op = "advance" /\ last.out.result = "True"
    \/ last.op = "validate_and_commit" /\ last.out.result = "ACCEPT"

\* ---------------------------------------------------------------------
\* C1: the anchor read from a receiver state never decreases, whatever call
\* was made (validate, validate_and_commit, advance, the load at
\* construction, measured from the initial_anchor the object was given), and
\* every validate_and_commit that returns (ACCEPT, j*) leaves it at j* + 1,
\* strictly above its value before the call.
\* ---------------------------------------------------------------------
C1_AnchorMonotonic ==
    /\ state.anchor >= last.pre.anchor
    /\ (last.op = "validate_and_commit" /\ last.out.result = "ACCEPT") =>
           /\ state.anchor = last.out.index + 1
           /\ state.anchor > last.pre.anchor

\* a commit that skipped an index of the window
C1_Witness ==
    /\ last.op = "validate_and_commit"
    /\ last.out.result = "ACCEPT"
    /\ last.out.index > last.pre.anchor
    /\ state.anchor = last.out.index + 1

\* ---------------------------------------------------------------------
\* C2: round trip.  When the sender index equals the receiver anchor t and
\* both hold the same provisioning, validate(build(S), state, S) returns
\* (ACCEPT, t) for every payload S, in both modes, and validate_and_commit
\* leaves the anchor at t + 1.
\* ---------------------------------------------------------------------
C2_RoundTrip ==
    Aligned =>
        \A S \in Payloads :
            /\ validate(validator, build(builder, S, FALSE), state, S, FALSE)
                   = Accept(state.anchor)
            /\ \A write_ok \in WriteOutcomes :
                   validate_and_commit(validator, build(builder, S, FALSE), state,
                                       blob, S, FALSE, write_ok).state.anchor
                       = state.anchor + 1

\* an aligned pair past the first index whose fragment was just committed
C2_Witness ==
    /\ last.op = "validate_and_commit"
    /\ last.out = Accept(last.pre.anchor)
    /\ last.pre.anchor >= 1
    /\ builder.index = last.pre.anchor
    /\ state.anchor = builder.index + 1
    /\ InSync

\* ---------------------------------------------------------------------
\* C3: window bound.  With the receiver on the sender's chain and the sender
\* k >= 0 indices ahead of the anchor t, the fragment built next validates
\* with its payload iff k <= nu; the matched index is then t + k and
\* validate_and_commit sets the anchor to t + k + 1.
\* ---------------------------------------------------------------------
WindowBound ==
    (InSync /\ builder.index >= state.anchor) =>
        \A S \in Payloads :
            LET k == builder.index - state.anchor
                f == build(builder, S, FALSE)
                r == validate(validator, f, state, S, FALSE)
            IN /\ r.result = "ACCEPT" <=> k <= validator.window_size
               /\ r.result # "ACCEPT" => r = Reject
               /\ r.result = "ACCEPT" =>
                      /\ r.index = state.anchor + k
                      /\ \A write_ok \in WriteOutcomes :
                             validate_and_commit(validator, f, state, blob, S,
                                                 FALSE, write_ok).state.anchor
                                 = state.anchor + k + 1

\* C3 as stated, for every evolution function Mode B may be given
C3_WindowBound_AnyEvol == WindowBound

\* C3 as amended: in Mode A, and in Mode B when Evol is injective
C3_WindowBound == InjectiveEvolution => WindowBound

\* a fragment one index ahead of the anchor was committed at that index
C3_Witness ==
    /\ last.op = "validate_and_commit"
    /\ last.frag \in {build(builder, S, FALSE) : S \in Payloads}
    /\ last.out = Accept(builder.index)
    /\ builder.index = last.pre.anchor + 1
    /\ state.anchor = builder.index + 1
    /\ InjectiveEvolution
    /\ InSync

\* ---------------------------------------------------------------------
\* C4: replay rejection.  A submission (fragment, payload) for which
\* validate_and_commit has returned ACCEPT is rejected when submitted again:
\* validate and validate_and_commit return (REJECT, None) and the receiver
\* stays as it is.
\* ---------------------------------------------------------------------
ReplayRejected ==
    state.alive =>
        \A a \in accepted :
            /\ validate(validator, a.frag, state, a.content, FALSE) = Reject
            /\ \A write_ok \in WriteOutcomes :
                   LET r == validate_and_commit(validator, a.frag, state, blob,
                                                a.content, FALSE, write_ok)
                   IN r.out = Reject /\ r.state = state /\ r.blob = blob

\* C4 as stated, in either mode with any evolution function
C4_ReplayRejected_AnyEvol == ReplayRejected

\* C4 as amended: in Mode A, and in Mode B when Evol is injective
C4_ReplayRejected == InjectiveEvolution => ReplayRejected

\* an accepted submission was submitted again and rejected
C4_Witness ==
    /\ last.op \in {"validate", "validate_and_commit"}
    /\ [frag |-> last.frag, content |-> last.content] \in accepted
    /\ last.out = Reject
    /\ state = last.pre
    /\ InjectiveEvolution

\* ---------------------------------------------------------------------
\* C5: a fragment the sender built at an index strictly below the anchor t
\* is rejected whatever payload is presented with it: validate returns
\* (REJECT, None).
\* ---------------------------------------------------------------------
OldFragmentsRejected ==
    state.alive =>
        \A i \in 0..builder.index, S \in Payloads, S2 \in Payloads :
            i < state.anchor =>
                validate(validator, SenderFragment(i, S), state, S2, FALSE) = Reject

Desync == InSync /\ builder.index > state.anchor + validator.window_size

\* the fragments the sender built beyond the window
LateFragments ==
    {SenderFragment(i, S) :
        i \in (state.anchor + validator.window_size + 1)..builder.index,
        S \in Payloads}

\* what C6 says of one step taken by a desynchronised pair: the sender's own
\* steps leave the receiver alone and desynchronised, and a fragment built
\* beyond the window is rejected and changes nothing
DesyncStep ==
    /\ last'.op \in {"build", "builder_advance"} =>
           state' = state /\ Desync'
    /\ last'.op \in {"validate", "validate_and_commit"}
           /\ last'.frag \in LateFragments =>
           last'.out = Reject /\ state' = state /\ blob' = blob

AdvanceAdmissible ==
    /\ last.new_anchor > last.pre.anchor
    /\ last.pre.mode = "A" => last.new_seed # None

C7_AdvanceContract ==
    last.op = "advance" =>
        /\ last.out.result = "True" <=> AdvanceAdmissible
        /\ AdvanceAdmissible =>
               /\ state.anchor = last.new_anchor
               /\ state.mode = "A" => state.seed = last.new_seed
        /\ ~AdvanceAdmissible =>
               /\ last.out.result = "False"
               /\ state = last.pre
               /\ blob = last.pre_blob

\* ---------------------------------------------------------------------
\* C8: persist-failure atomicity.  When the durable write fails during
\* advance or validate_and_commit, the anchor and the seed in memory are back
\* at their values of before the call when the call returns, and
\* validate_and_commit returns (ERROR, None) instead of raising.
\* ---------------------------------------------------------------------
\* the durable write of the last call failed
WriteFailed ==
    /\ last.op \in {"advance", "validate_and_commit"}
    /\ last.out = Raised

C8_PersistFailureAtomic ==
    /\ WriteFailed =>
           /\ state.anchor = last.pre.anchor
           /\ state.seed = last.pre.seed
    /\ last.op = "validate_and_commit" => last.out # Raised

\* ---------------------------------------------------------------------
\* C9: with a persistence path, after every successful advance the blob
\* holds the (anchor, seed) pair of the memory, a call that commits nothing
\* does not modify the blob, and so memory and blob, once they agree, agree
\* after every call on the state object.
\* ---------------------------------------------------------------------
\* the blob holds the (anchor, seed) pair of the state
Agree(st, bl) ==
    /\ bl.exists
    /\ bl.anchor = st.anchor
    /\ bl.seed = IF st.mode = "A" THEN st.seed ELSE None

C9_DurableAgrees ==
    (/\ state.persistence_path
     /\ state.alive
     /\ last.op \in {"validate", "validate_and_commit", "advance"}) =>
        /\ Committed => Agree(state, blob)
        /\ ~Committed => blob = last.pre_blob
        /\ Agree(last.pre, last.pre_blob) => Agree(state, blob)

\* ---------------------------------------------------------------------
\* C10: in SecureElementState, after each successful advance the
\* rollback_counter stored in the blob equals the counter in memory.
\* ---------------------------------------------------------------------
C10_CounterPersisted ==
    (state.kind = "SecureElementState" /\ state.alive /\ Committed) =>
        /\ blob.exists
        /\ blob.rollback_counter = state.rollback_counter

\* ---------------------------------------------------------------------
\* C11: rollback detection.  When an old copy of the blob (taken at a lower
\* anchor, with a lower rollback counter than the receiver now has) has been
\* put back, loading it, by _load_state on the receiver or by a restart on
\* the same path, raises SecurityError and the stale state is not adopted.
\* ---------------------------------------------------------------------
\* an old copy of the blob has been put back under a SecureElementState
RolledBack ==
    /\ state.kind = "SecureElementState"
    /\ state.alive
    /\ blob.exists
    /\ blob.form = "ok"
    /\ blob = snapshot
    /\ blob.anchor < state.anchor
    /\ loaded_counter(blob) < state.rollback_counter

\* a step that loads the blob: _load_state on the live object, or __init__
LoadStep ==
    /\ last'.op \in {"load", "construct"}
    /\ last'.pre_blob = blob
    /\ UNCHANGED <<blob, snapshot, builder>>

C11_RollbackDetected ==
    [][(RolledBack /\ LoadStep) =>
           /\ last'.out.result = "SecurityError"
           /\ ~(state'.alive /\ state'.anchor = blob.anchor)]_vars

\* what holds of C11: the live object refuses the stale blob with the fault
C11_LiveLoadDetected ==
    [][(RolledBack /\ LoadStep /\ last'.op = "load") =>
           /\ last'.out.result = "SecurityError"
           /\ state' = state]_vars

\* ---------------------------------------------------------------------
\* C12: anti-rollback on load.  For ReceiverState and SecureElementState
\* alike, a load never adopts a blob whose anchor or rollback counter is
\* below the value in memory: after any load (by _load_state on the object,
\* or inside __init__, measured from the initial_anchor given) the anchor and
\* the counter in memory are at least what they were before it.
\* ---------------------------------------------------------------------
C12_NoRollbackOnLoad ==
    (last.op \in {"load", "construct"} /\ state.alive) =>
        /\ state.anchor >= last.pre.anchor
        /\ state.rollback_counter >= last.pre.rollback_counter

\* what holds of C12: the load of ReceiverState
C12_ReceiverStateLoad ==
    (last.op \in {"load", "construct"} /\ state.alive
        /\ state.kind = "ReceiverState") =>
        state.anchor >= last.pre.anchor

\* ---------------------------------------------------------------------
\* C13: malformed blob on load.  Whatever the damage of the persisted blob
\* (invalid JSON, JSON that is not an object, seed missing or not hex, anchor
\* not an integer), a load leaves the anchor and the seed in memory unchanged
\* and raises no error to the caller.
\* ---------------------------------------------------------------------
\* the blob the last call read was malformed
Malformed(bl) ==
    /\ bl.exists
    /\ \/ bl.form # "ok"
       \/ bl.mode = "A" /\ bl.seed = None

C13_MalformedIgnored ==
    (last.op \in {"load", "construct"} /\ Malformed(last.pre_blob)) =>
        /\ last.out.result \in {"None", "constructed"}
        /\ state.anchor = last.pre.anchor
        /\ state.seed = last.pre.seed

\* what holds of C13: text that json.load refuses is ignored
C13_InvalidJsonIgnored ==
    (last.op \in {"load", "construct"} /\ last.pre_blob.exists
        /\ last.pre_blob.form = "invalid_json") =>
        /\ last.out.result \in {"None", "constructed"}
        /\ state = last.pre

\* ---------------------------------------------------------------------
\* C14: persistence across restart.  After the receiver accepted fragments
\* up to anchor t with a persistence path, a fresh instance constructed from
\* the original provisioning inputs (anchor 0, K_0) and the same path resumes
\* at anchor t with seed K_t: every accepted submission is rejected when
\* replayed and the sender's fragment of index t is accepted at t.
\* ---------------------------------------------------------------------
\* the last call was a restart from the original provisioning, after accepts
Restarted ==
    /\ last.op = "construct"
    /\ last.new_anchor = 0
    /\ last.pre.persistence_path
    /\ accepted # {}

\* the fresh instance carries on where the blob stands
Resumes ==
    /\ state.alive
    /\ Agree(state, blob)
    /\ \A a \in accepted :
           validate(validator, a.frag, state, a.content, FALSE) = Reject
    /\ builder.index >= state.anchor =>
           \A S \in Payloads :
               validate(validator, SenderFragment(state.anchor, S), state, S, FALSE)
                   = Accept(state.anchor)

C14_RestartResumes == Restarted => Resumes

\* what holds of C14: a ReceiverState, in Mode A or with an injective Evol
C14_ReceiverStateResumes ==
    (Restarted /\ state.kind = "ReceiverState" /\ InjectiveEvolution) => Resumes

\* ---------------------------------------------------------------------
\* C15: crash between validation and persistence.  When the process stops
\* after a fragment matched at j* and before the durable write completed, the
\* blob still holds the (anchor, seed) of before the commit; the receiver
\* restarted from the original provisioning and that blob validates the same
\* fragment again at the same index j*, and commits it as usual.
\* ---------------------------------------------------------------------
\* the last call matched a fragment and its durable write did not complete
Crashed ==
    /\ last.op = "validate_and_commit"
    /\ last.out = Raised

\* the blob, or without a blob the provisioning, holds what st holds
Durable(st, bl) ==
    IF bl.exists THEN Agree(st, bl)
    ELSE st.anchor = 0 /\ st.seed = (IF st.mode = "A" THEN K0 ELSE None)

\* the restart after the crash finds the receiver of before the commit
Recovers ==
    LET before == validate(validator, last.frag, last.pre, last.content, FALSE)
    IN /\ blob' = last.pre_blob
       /\ Durable(last.pre, blob')
       /\ state'.alive
       /\ validate(validator, last.frag, state', last.content, FALSE) = before
       /\ LET r == validate_and_commit(validator, last.frag, state', blob',
                                       last.content, FALSE, TRUE)
          IN r.out = before /\ r.state.anchor = before.index + 1

\* the step from the crash to the restarted receiver
RestartStep ==
    /\ Crashed
    /\ last'.op = "construct"
    /\ last'.new_anchor = 0

C15_CrashRecovery == [][RestartStep => Recovers]_vars

\* what holds of C15: a ReceiverState whose memory was not ahead of the blob
C15_ReceiverStateRecovers ==
    [][(RestartStep /\ state.kind = "ReceiverState"
           /\ Durable(last.pre, last.pre_blob)) => Recovers]_vars

\* ---------------------------------------------------------------------
\* C16: whatever the sequence of commits, load failures, restarts and
\* re-instantiations on the same persistence path, the anchor stored in the
\* blob never decreases: no write of the receiver replaces the blob by one of
\* a lower anchor.
\* ---------------------------------------------------------------------
\* the anchor of the blob can be read
AnchorStored(bl) == bl.exists /\ bl.form \in {"ok", "seed_not_hex"}

\* a step in which the receiver writes the blob
WriteStep == blob' # blob /\ last' # last

C16_BlobNeverOlder ==
    [][(WriteStep /\ AnchorStored(blob)) => blob'.anchor >= blob.anchor]_vars

\* ---------------------------------------------------------------------
\* C17: sender ordering.  build never changes the sender state; two build
\* calls with no advance between them return the same fragment for the same
\* payload; after advance, build uses the next evolution parameter, K_{i+1}
\* in Mode A and Evol(i+1) in Mode B.
\* ---------------------------------------------------------------------
\* the fragment of payload S under the parameter that follows builder's
NextFragment(S) ==
    LET next_seed == KDF(builder.seed)
    IN compute_fragment(builder.domain, prepare_content(S, TRUE),
                        IF builder.mode = "A" THEN next_seed
                        ELSE Evol(builder.evol_func, builder.index + 1),
                        builder.fragment_length,
                        IF builder.mode = "A" /\ builder.use_keyed_mode
                        THEN next_seed ELSE None)

C17_SenderOrdering ==
    [][/\ last'.op = "build" =>
              /\ builder' = builder
              /\ last'.frag = build(builder, last'.content, FALSE)
       /\ (last'.op = "build" /\ last.op = "build"
              /\ last'.content = last.content) => last'.frag = last.frag
       /\ last'.op = "builder_advance" =>
              \A S \in Payloads : build(builder', S, FALSE) = NextFragment(S)]_vars

\* a fragment built after an advance, unlike the one built before it
C17_Witness ==
    /\ last.op = "build"
    /\ builder.index = 1
    /\ last.frag.len = DEFAULT_FRAGMENT_LENGTH \div 8
    /\ last.frag = build(builder, last.content, FALSE)
    /\ last.frag # build(builder_at(builder, 0), last.content, FALSE)

\* ---------------------------------------------------------------------
\* C18: sender invariant.  The index is 0 at construction, grows by one with
\* every advance and is changed by nothing else (get_state / from_state
\* included), so it counts the advance calls since K_0; in Mode A the stored
\* seed is K_i, KDF applied i times to K_0.
\* ---------------------------------------------------------------------
C18_SenderInvariant ==
    [][/\ builder'.index =
              IF last'.op = "builder_advance" THEN builder.index + 1
              ELSE IF last'.op = "builder_construct" /\ last'.out.result = "None"
              THEN 0
              ELSE builder.index
       /\ builder'.mode = "A" => builder'.seed = KDFn(K0, builder'.index)]_vars

\* a sender restored from its saved state after an advance
C18_Witness ==
    /\ last.op = "builder_restore"
    /\ builder.mode = "A"
    /\ builder.index >= 1
    /\ builder.seed = KDFn(K0, builder.index)

\* ---------------------------------------------------------------------
\* C19: sender snapshot / restore round trip.  For every reachable builder b,
\* in either mode, keyed or not, from_state(get_state(b)) has the mode, index,
\* domain, length and seed of b and builds the same fragment as b for every
\* payload.
\* ---------------------------------------------------------------------
RoundTrip ==
    LET r == from_state(get_state(builder), builder.evol_func)
    IN /\ r.mode = builder.mode
       /\ r.index = builder.index
       /\ r.domain = builder.domain
       /\ r.fragment_length = builder.fragment_length
       /\ r.seed = builder.seed
       /\ \A S \in Payloads : build(r, S, FALSE) = build(builder, S, FALSE)

C19_SnapshotRoundTrip == RoundTrip

\* what holds of C19: the round trip of a builder in keyed mode, or in Mode B
C19_KeyedRoundTrip ==
    (builder.use_keyed_mode \/ builder.mode = "B") => RoundTrip

\* ---------------------------------------------------------------------
\* C20: configuration errors are surfaced at construction.  No builder exists
\* in Mode A without a seed, in Mode B without Evol, or with a fragment
\* length below 256 bits, and so no build call meets such a configuration.
\* ---------------------------------------------------------------------
C20_ConfigErrorsAtConstruction ==
    /\ builder.mode = "A" => builder.seed # None
    /\ builder.mode = "B" => builder.evol_func # "None"
    /\ builder.fragment_length >= MinFragmentLength
    /\ last.op = "build" => last.frag # ValueError

\* what holds of C20: the seed and the evolution function are checked
C20_SeedAndEvolChecked ==
    /\ builder.mode = "A" => builder.seed # None
    /\ builder.mode = "B" => builder.evol_func # "None"

\* ---------------------------------------------------------------------
\* C21: outcome surface.  Every call of validate and validate_and_commit
\* returns exactly one of (ACCEPT, j*) with t <= j* <= t + nu, t the anchor
\* at call time, (REJECT, None) or (ERROR, None); an index comes only with
\* ACCEPT.
\* ---------------------------------------------------------------------
\* the outcomes a call made at anchor t with window nu may return
OutcomeSurface(t, nu) ==
    {Accept(j) : j \in t..(t + nu)} \cup {Reject, Error}

C21_OutcomeSurface ==
    last.op \in {"validate", "validate_and_commit"} =>
        last.out \in OutcomeSurface(last.pre.anchor, validator.window_size)

\* what holds of C21: every call that returns, returns an outcome of the surface
C21_ReturnedOutcomes ==
    (last.op \in {"validate", "validate_and_commit"} /\ last.out # Raised) =>
        last.out \in OutcomeSurface(last.pre.anchor, validator.window_size)

\* ---------------------------------------------------------------------
\* C22: wrong-length fragment.  validate and validate_and_commit return
\* (ERROR, None) for every received fragment whose length is not l/8 bytes
\* and leave the anchor, the seed and the blob as they were; the error is not
\* fatal: every fragment validates afterwards as it did before, so a well
\* formed fragment of the window is still accepted.
\* ---------------------------------------------------------------------
\* the fragment of the call has not the length the validator expects
WrongLength(f) == f.len # validator.fragment_length \div 8

\* the receiver answers every submission as the receiver st did
AnswersAs(st) ==
    \A f \in ChannelFragments, S \in Payloads :
        validate(validator, f, state, S, FALSE)
            = validate(validator, f, st, S, FALSE)

C22_WrongLengthError ==
    (last.op \in {"validate", "validate_and_commit"} /\ WrongLength(last.frag)) =>
        /\ last.out = Error
        /\ state = last.pre
        /\ blob = last.pre_blob
        /\ AnswersAs(last.pre)

\* a fragment of the wrong length was refused and the sender's current
\* fragment is accepted after it
C22_Witness ==
    /\ last.op = "validate_and_commit"
    /\ WrongLength(last.frag)
    /\ last.out = Error
    /\ state = last.pre
    /\ Aligned
    /\ builder.index >= 1
    /\ \A S \in Payloads :
           validate(validator, build(builder, S, FALSE), state, S, FALSE)
               = Accept(state.anchor)

\* ---------------------------------------------------------------------
\* C23: silent reject.  Two fragments of the right size that both fail to
\* match (one built by the sender outside the window or for another payload,
\* the other arbitrary bytes) get the same outcome (REJECT, None) from
\* validate and validate_and_commit and leave the same receiver state; ERROR
\* is never returned for a fragment of the right size, so the outcome does
\* not tell a bad fragment from one outside the window.
\* ---------------------------------------------------------------------
\* the fragments the validator recomputes for payload S: one per index of the
\* window [t, t + nu]
WindowFragments(S) ==
    {IF state.mode = "A"
     THEN expected_mode_a(validator, prepare_content(S, TRUE),
                          KDFn(state.seed, j - state.anchor))
     ELSE compute_fragment(validator.domain, prepare_content(S, TRUE),
                           Evol(validator.evol_func, j),
                           validator.fragment_length, None) :
        j \in state.anchor..(state.anchor + validator.window_size)}

\* a fragment of the right size that fails to match with payload S
NoMatch(f, S) == ~WrongLength(f) /\ f \notin WindowFragments(S)

\* the outcome of validate and what validate_and_commit returns and leaves
Response(f, S, write_ok) ==
    [validate |-> validate(validator, f, state, S, FALSE),
     commit |-> validate_and_commit(validator, f, state, blob, S, FALSE, write_ok)]

\* the response every fragment that fails to match gets: REJECT, nothing moved
SilentResponse ==
    [validate |-> Reject,
     commit |-> [state |-> state, blob |-> blob, out |-> Reject]]

C23_SilentReject ==
    state.alive =>
        \A S \in Payloads, write_ok \in WriteOutcomes, f \in ChannelFragments :
            LET r == Response(f, S, write_ok)
            IN /\ ~WrongLength(f) =>
                      r.validate # Error /\ r.commit.out # Error
               /\ NoMatch(f, S) => r = SilentResponse

\* a fragment the sender built below the anchor was rejected with its own
\* payload, as arbitrary bytes are
C23_Witness ==
    /\ last.op = "validate_and_commit"
    /\ last.out = Reject
    /\ state = last.pre
    /\ InSync
    /\ \E i \in 0..builder.index :
           i < state.anchor /\ last.frag = SenderFragment(i, last.content)
    /\ NoMatch(last.frag, last.content)
    /\ NoMatch(RandomFragment, last.content)
    /\ validate(validator, RandomFragment, state, last.content, FALSE) = Reject

\* ---------------------------------------------------------------------
\* C24: the constant-time validator always traverses the full window.  Every
\* validation by a ConstantTimeValidator that is not a structural ERROR
\* performs exactly nu + 1 fragment recomputations and comparisons, whether
\* and wherever a match occurs, in Mode A and in Mode B.
\* ---------------------------------------------------------------------
\* the last call was a validation by the constant-time class, not refused
\* for its structure
ConstantTimeValidation ==
    /\ last.op \in {"validate", "validate_and_commit"}
    /\ validator.kind = "ConstantTimeValidator"
    /\ ~WrongLength(last.frag)

\* the last validation went through the nu + 1 indices of the window
FullWindow ==
    comparisons(validator, last.frag, last.pre, last.content, FALSE)
        = validator.window_size + 1

C24_FullWindowTraversal == ConstantTimeValidation => FullWindow

\* what holds of C24: the constant-time class in Mode A
C24_FullWindowModeA ==
    (ConstantTimeValidation /\ last.pre.mode = "A") => FullWindow

\* ---------------------------------------------------------------------
\* C25: content binding.  A fragment built for payload S_A at index i
\* validates only with S_A: with another payload S_B validate and
\* validate_and_commit return (REJECT, None) and change nothing, after which
\* validating it with S_A still returns (ACCEPT, i).
\* ---------------------------------------------------------------------
\* the indices of the window the sender has reached
BuiltInWindow ==
    {i \in 0..builder.index :
        state.anchor <= i /\ i <= state.anchor + validator.window_size}

ContentBinding ==
    InSync =>
        \A i \in BuiltInWindow, SA \in Payloads, SB \in Payloads :
            SA # SB =>
                LET f == SenderFragment(i, SA)
                IN /\ validate(validator, f, state, SB, FALSE) = Reject
                   /\ \A write_ok \in WriteOutcomes :
                          LET r == validate_and_commit(validator, f, state, blob,
                                                       SB, FALSE, write_ok)
                          IN /\ r.out = Reject
                             /\ r.state = state
                             /\ r.blob = blob
                             /\ validate(validator, f, r.state, SA, FALSE)
                                    = Accept(i)

\* C25 as stated, in either mode with any evolution function
C25_ContentBinding_AnyEvol == ContentBinding

\* C25 as amended: in Mode A, and in Mode B when Evol is injective
C25_ContentBinding == InjectiveEvolution => ContentBinding

\* a fragment built one index ahead of the anchor was rejected with the other
\* payload and validates with its own
C25_Witness ==
    /\ last.op = "validate_and_commit"
    /\ last.out = Reject
    /\ state = last.pre
    /\ blob = last.pre_blob
    /\ InSync
    /\ InjectiveEvolution
    /\ \E SA \in Payloads :
           /\ SA # last.content
           /\ state.anchor + 1 \in BuiltInWindow
           /\ last.frag = SenderFragment(state.anchor + 1, SA)
           /\ validate(validator, last.frag, state, SA, FALSE)
                  = Accept(state.anchor + 1)

\* ---------------------------------------------------------------------
\* C26: receiver seed invariant (Mode A).  After construction, with or
\* without loading a blob this code wrote, and after any sequence of
\* validate_and_commit calls, successful or not, the stored seed is K_t, KDF
\* applied t times to K_0, for the current anchor t; on ACCEPT at j* the new
\* pair is (j* + 1, K_{j*+1}).
\* ---------------------------------------------------------------------
C26_ReceiverSeedInvariant ==
    (state.alive /\ state.mode = "A") =>
        /\ state.seed = KDFn(K0, state.anchor)
        /\ (last.op = "validate_and_commit" /\ last.out.result = "ACCEPT") =>
               /\ state.anchor = last.out.index + 1
               /\ state.seed = KDFn(K0, last.out.index + 1)

\* a restarted receiver that adopted the pair of a blob written after accepts
C26_Witness ==
    /\ last.op = "construct"
    /\ state.alive
    /\ state.mode = "A"
    /\ accepted # {}
    /\ last.pre_blob.exists
    /\ state.anchor = last.pre_blob.anchor
    /\ state.anchor > last.new_anchor
    /\ state.seed = last.pre_blob.seed
    /\ state.seed = KDFn(K0, state.anchor)

\* ---------------------------------------------------------------------
\* C27: Encode(D, C, Z) is injective.  For all triples of byte strings, each
\* shorter than 2^32 bytes, Encode(D1, C1, Z1) = Encode(D2, C2, Z2) implies
\* D1 = D2, C1 = C2 and Z1 = Z2: each part carries its 4-byte big-endian
\* length.
\* ---------------------------------------------------------------------
C27_EncodeInjective ==
    crypto.f = "encode" =>
        \A D2 \in ByteStrings, C2 \in ByteStrings, Z2 \in ByteStrings :
            encode_bytes(D2, C2, Z2) = crypto.encoded =>
                /\ D2 = crypto.domain
                /\ C2 = crypto.content
                /\ Z2 = crypto.evolution_param

\* a triple was encoded that another triple equals once the parts are joined
\* and the encodings of the two differ
C27_Witness ==
    /\ crypto.f = "encode"
    /\ crypto.encoded
           = encode_bytes(crypto.domain, crypto.content, crypto.evolution_param)
    /\ \E D2 \in ByteStrings, C2 \in ByteStrings, Z2 \in ByteStrings :
           /\ <<D2, C2, Z2>>
                  # <<crypto.domain, crypto.content, crypto.evolution_param>>
           /\ D2 \o C2 \o Z2
                  = crypto.domain \o crypto.content \o crypto.evolution_param
           /\ encode_bytes(D2, C2, Z2) # crypto.encoded

\* ---------------------------------------------------------------------
\* C28: KDF context separation.  For every seed K and every context theta
\* that is supplied, the empty byte string included, KDF(K, theta) differs
\* from KDF(K).
\* ---------------------------------------------------------------------
C28_ContextSeparation ==
    (crypto.f = "KDF" /\ crypto.context.given) =>
        crypto.digest # KDF_context(crypto.seed, NoContext)

\* what holds of C28: a context of at least one byte changes the output
C28_NonEmptyContextSeparates ==
    (crypto.f = "KDF" /\ crypto.context.given /\ crypto.context.bytes # <<>>) =>
        crypto.digest # KDF_context(crypto.seed, NoContext)

\* ---------------------------------------------------------------------
\* C29: fragment length.  compute_fragment and FragmentBuilder.build return
\* exactly l/8 bytes for every accepted length l, in keyed mode with the
\* counter-mode extension and in unkeyed mode alike, and compute_fragment
\* refuses every l < 256 with a parameter error instead of a fragment.
\* ---------------------------------------------------------------------
\* what C29 says compute_fragment returns for length l: the error below 256
\* bits, otherwise a fragment of l/8 bytes, that is of l bits
ExactLength(f, l) ==
    IF l < MinFragmentLength THEN f = ValueError
    ELSE f # ValueError /\ 8 * f.len = l

\* the same with the length rounded down to whole bytes
WholeBytes(f, l) ==
    IF l < MinFragmentLength THEN f = ValueError
    ELSE f # ValueError /\ f.len = l \div 8

\* l/8 bytes for a length that is a multiple of 8, the whole bytes otherwise
MultipleOfEight(f, l) ==
    IF l % 8 = 0 THEN ExactLength(f, l) ELSE WholeBytes(f, l)

\* the fragments compute_fragment returns, keyed and unkeyed, at length l
ComputedFragments(l) ==
    {compute_fragment(Domain, prepare_content(S, TRUE), K0, l, key) :
        key \in {None, K0}, S \in Payloads}

LastAdvanceSteps ==
    LET write_ok == last.out.result # "OSError"
    IN IF last.op = "advance"
       THEN advance_steps(last.pre, last.new_anchor, last.new_seed, write_ok)
       ELSE IF last.op = "validate_and_commit"
       THEN LET r == validate(validator, last.frag, last.pre, last.content, FALSE)
            IN IF r.result = "ACCEPT"
               THEN advance_steps(last.pre, r.index + 1,
                                  get_seed_for_index(last.pre, r.index + 1),
                                  write_ok)
               ELSE <<>>
       ELSE <<>>

\* step a comes before step b in the sequence s
Before(s, a, b) ==
    \E i \in 1..Len(s), k \in 1..Len(s) : i < k /\ s[i] = a /\ s[k] = b

\* step a occurs in the sequence s
Occurs(s, a) == \E i \in 1..Len(s) : s[i] = a

C30_TwoPhaseOrder ==
    LET s == LastAdvanceSteps
    IN (last.pre.persistence_path /\ Occurs(s, "erase")) =>
           /\ Before(s, "prepare", "write")
           /\ Before(s, "write", "erase")

\* what holds of C30: the new state is prepared before anything is written
\* or erased
C30_PrepareFirst ==
    LET s == LastAdvanceSteps
    IN /\ Occurs(s, "erase") => Before(s, "prepare", "erase")
       /\ Occurs(s, "write") => Before(s, "prepare", "write")
       /\ Occurs(s, "write_failed") => Before(s, "prepare", "write_failed")

\* ---------------------------------------------------------------------
\* C31  Atomic write.  A save proceeds as write temp file, flush, fsync,
\* rename over the target.  At every intermediate step, and when the process
\* stops or the write fails at any step, the file at the persistence path
\* holds either the complete previous blob or the complete new blob, never a
\* partial one, for ReceiverState and for SecureElementState.
\* ---------------------------------------------------------------------
C31_AtomicWrite ==
    /\ complete(blob)
    /\ blob \in {save.previous, save.new}

\* a process was stopped while the temp file held a part of the text, and
\* the file at the persistence path is still the previous blob, whole
C31_Witness ==
    /\ save.stopped
    /\ save.temp.exists
    /\ ~complete(save.temp)
    /\ blob.exists
    /\ blob = save.previous
    /\ blob # save.new

\* ---------------------------------------------------------------------
\* C32  get_seed_for_index.  For a Mode A receiver with anchor t and seed
\* K_t the call returns None for every j < t and otherwise the result of
\* applying KDF exactly j - t times to K_t (K_t itself for j = t); it never
\* changes anchor, seed or durable state.
\* ---------------------------------------------------------------------
\* the element k steps down the chain from seed: KDF applied exactly k times
AppliedTimes(seed, k) == [root |-> seed.root, n |-> seed.n + k]

C32_DeriveSeed ==
    (last.op = "get_seed_for_index" /\ last.pre.mode = "A") =>
        LET j == last.new_anchor
            t == last.pre.anchor
        IN /\ j < t => last.new_seed = None
           /\ j >= t => last.new_seed = AppliedTimes(last.pre.seed, j - t)
           /\ j = t => last.new_seed = last.pre.seed
           /\ state = last.pre
           /\ blob = last.pre_blob

\* a receiver that has committed and persisted is asked for an index below
\* its anchor
C32_Witness ==
    /\ last.op = "get_seed_for_index"
    /\ last.pre.mode = "A"
    /\ last.pre.anchor > 0
    /\ blob.exists
    /\ last.new_anchor < last.pre.anchor
    /\ last.new_seed = None

\* ---------------------------------------------------------------------
\* C33  Tie-breaking.  If several indices j in [t, t + nu] recompute to a
\* fragment equal to the received one, both the early-stop and the
\* constant-time validator return ACCEPT with the smallest such j.
\* ---------------------------------------------------------------------
\* the fragment the receiver st recomputes for index j and payload S
Recomputed(st, j, S) ==
    IF st.mode = "A"
    THEN expected_mode_a(validator, prepare_content(S, TRUE),
                         KDFn(st.seed, j - st.anchor))
    ELSE compute_fragment(validator.domain, prepare_content(S, TRUE),
                          Evol(validator.evol_func, j),
                          validator.fragment_length, None)

\* the indices of the window of st whose fragment equals f
Matching(st, f, S) ==
    {j \in st.anchor..(st.anchor + validator.window_size) :
        Recomputed(st, j, S) = f}

\* the smallest index of a non-empty set
Smallest(M) == CHOOSE j \in M : \A k \in M : j <= k

\* the last validation met a tie
Tie == Cardinality(Matching(last.pre, last.frag, last.content)) > 1

C33_TieBreaking ==
    (last.op = "validate" /\ Tie) =>
        last.out = Accept(Smallest(Matching(last.pre, last.frag, last.content)))

\* the constant-time validator met, in Mode A, a fragment that several
\* indices of its window recompute
C33_Witness ==
    /\ last.op = "validate"
    /\ Tie
    /\ last.pre.mode = "A"
    /\ validator.kind = "ConstantTimeValidator"
    /\ last.out = Accept(last.pre.anchor)

\* the same in Mode B, where the class inherits the early-stop loop
C33_TieModeB ==
    /\ last.op = "validate"
    /\ Tie
    /\ last.pre.mode = "B"
    /\ last.out = Accept(last.pre.anchor)

\* what validate_and_commit does with a tie: when it returns ACCEPT, it is
\* with the smallest matching index, and the anchor is then that index + 1
C33_TieCommitted ==
    (last.op = "validate_and_commit" /\ Tie /\ last.out.result = "ACCEPT") =>
        /\ last.out.index = Smallest(Matching(last.pre, last.frag, last.content))
        /\ state.anchor = last.out.index + 1

\* ---------------------------------------------------------------------
\* C34  Seed erasure.  After a Mode A sender advance or a successful
\* receiver advance, the buffer that held the previous seed contains only
\* zero bytes, and neither state object retains any seed K_j with j below
\* its current index / anchor; get_seed_for_index caches no intermediate
\* seed in the state.
\* ---------------------------------------------------------------------
\* the seeds of the deployment's chain among the given buffer contents
ChainSeeds(contents) == {s \in contents : s.root = K0.root}

\* the seeds the sender holds: in builder._seed and in the buffer it gave up
SenderSeeds == ChainSeeds({builder.seed, memory.builder_old.content})

\* the seeds the receiver holds: in state._seed and in the buffer it gave up
ReceiverSeeds == ChainSeeds({state.seed, memory.state_old.content})

\* the last call was an advance of the Mode A receiver that succeeded
ReceiverAdvanced ==
    /\ last.pre.mode = "A"
    /\ \/ last.op = "validate_and_commit" /\ last.out.result = "ACCEPT"
       \/ last.op = "advance" /\ last.out.result = "True"

C34_SeedErasure ==
    /\ (last.op = "builder_advance" /\ builder.mode = "A") =>
           /\ memory.builder_old.content = Zeros
           /\ \A s \in SenderSeeds : s.n >= builder.index
    /\ ReceiverAdvanced =>
           /\ memory.state_old.content = Zeros
           /\ \A s \in ReceiverSeeds : s.n >= state.anchor
    /\ last.op = "get_seed_for_index" => state = last.pre

\* both endpoints have advanced from a seed of 16 bytes: the sender holds
\* K_1 alone and the receiver, after its commit, the seed of its anchor
\* alone, each with a zeroed buffer behind it
C34_Witness ==
    /\ builder.mode = "A"
    /\ builder.index = 1
    /\ SenderSeeds = {SeedAt(1)}
    /\ memory.builder_old.content = Zeros
    /\ ReceiverAdvanced
    /\ last.op = "validate_and_commit"
    /\ state.anchor > 0
    /\ ReceiverSeeds = {SeedAt(state.anchor)}
    /\ memory.state_old = Buffer(Zeros, DEFAULT_SEED_LENGTH \div 2)

\* ---------------------------------------------------------------------
\* C35  KDF output length equals the input seed length for every seed
\* length, so the stored seed length of sender and receiver is unchanged by
\* any number of advances.
\* ---------------------------------------------------------------------
\* the seeds stored by the Mode A endpoints have the length they were
\* provisioned with
SeedLengthKept ==
    builder.mode = "A" =>
        /\ memory.builder_seed_len = memory.provisioned_seed_len
        /\ memory.state_seed_len = memory.provisioned_seed_len

\* the seed the sender's last advance stored, the output of KDF, is as long
\* as the seed it erased, the input of KDF
OutputAsLongAsInput ==
    memory.builder_old # NoBuffer =>
        memory.builder_seed_len = memory.builder_old.len

C35_SeedLengthPreserved ==
    /\ OutputAsLongAsInput
    /\ SeedLengthKept

\* what holds of C35: KDF returns the 32 bytes of a SHA-256 digest whatever
\* the seed, so a seed of 32 bytes keeps its length, and any seed is 32 bytes
\* long from the first advance on
C35_DigestLength ==
    /\ \A len \in SeedLengths : KDF_length(len) = SHA256_DIGEST_BYTES
    /\ memory.provisioned_seed_len = SHA256_DIGEST_BYTES => SeedLengthKept
    /\ (builder.mode = "A" /\ builder.index > 0) =>
           memory.builder_seed_len = SHA256_DIGEST_BYTES
    /\ ReceiverAdvanced => memory.state_seed_len = SHA256_DIGEST_BYTES

\* ---------------------------------------------------------------------
\* C36  validate never mutates the receiver: for every fragment, payload
\* and outcome (ACCEPT, REJECT or ERROR), anchor, seed and durable blob are
\* the same after validate as before.  Only validate_and_commit and advance
\* change receiver state, and validate_and_commit changes it only on ACCEPT.
\* ---------------------------------------------------------------------
\* the last call left the receiver and its blob as they were
ReceiverUntouched == state = last.pre /\ blob = last.pre_blob

C36_ValidateFrame ==
    /\ last.op = "validate" => ReceiverUntouched
    /\ ~ReceiverUntouched => last.op \in {"validate_and_commit", "advance"}
    /\ (last.op = "validate_and_commit" /\ ~ReceiverUntouched) =>
           last.out.result = "ACCEPT"

\* what holds of C36: validate changes nothing whatever it returns, nothing
\* but validate_and_commit and advance changes the receiver, and
\* validate_and_commit changes it only when its validation found a match:
\* then it returns ACCEPT, unless the durable write fails
C36_ValidateNeverMutates ==
    /\ last.op = "validate" =>
           /\ ReceiverUntouched
           /\ last.out.result \in {"ACCEPT", "REJECT", "ERROR"}
    /\ ~ReceiverUntouched => last.op \in {"validate_and_commit", "advance"}
    /\ (last.op = "validate_and_commit" /\ ~ReceiverUntouched) =>
           /\ validate(validator, last.frag, last.pre, last.content, FALSE).result
                  = "ACCEPT"
           /\ last.out.result \in {"ACCEPT", Raised.result}

\* ---------------------------------------------------------------------
\* C37  The early-stop FragmentValidator and the ConstantTimeValidator are
\* observationally equivalent: run side by side on equal receiver states
\* with the same fragment and payload, they return the same (result, matched
\* index) and, through validate_and_commit, reach the same (anchor, seed),
\* in Mode A and in Mode B.
\* ---------------------------------------------------------------------
\* the validator of the run, as an instance of either class
EarlyStop == [validator EXCEPT !.kind = "FragmentValidator"]
ConstantTime == [validator EXCEPT !.kind = "ConstantTimeValidator"]

C37_ObservationalEquivalence ==
    \A f \in ChannelFragments, S \in Payloads :
        /\ validate(EarlyStop, f, state, S, FALSE)
               = validate(ConstantTime, f, state, S, FALSE)
        /\ \A write_ok \in WriteOutcomes :
               validate_and_commit(EarlyStop, f, state, blob, S, FALSE, write_ok)
                   = validate_and_commit(ConstantTime, f, state, blob, S, FALSE,
                                         write_ok)

\* a Mode A commit matched beyond the first index of the window, where the
\* early-stop loop had compared twice and stopped and the constant-time loop
\* goes on to the end; run on the receiver as it was, either class answers
\* what the call returned
C37_Witness ==
    /\ last.op = "validate_and_commit"
    /\ last.pre.mode = "A"
    /\ last.out = Accept(last.pre.anchor + 1)
    /\ state.anchor = last.pre.anchor + 2
    /\ validate(EarlyStop, last.frag, last.pre, last.content, FALSE) = last.out
    /\ validate(ConstantTime, last.frag, last.pre, last.content, FALSE) = last.out

\* ---------------------------------------------------------------------
\* C38  If two validate_and_commit calls on the same receiver state
\* interleave at the granularity validate / get_seed_for_index / advance,
\* the state stays consistent: the anchor only increases, the stored seed
\* still equals K_t for the final anchor t, and for two calls carrying the
\* same fragment at most one returns ACCEPT (the other returns ERROR or
\* REJECT), so the fragment advances the anchor once.
\* ---------------------------------------------------------------------
\* the anchor is not below what any caller saw, and the Mode A seed is the
\* one of the anchor
ConsistentState ==
    /\ \A c \in Callers : state.anchor >= calls[c].anchor_seen
    /\ state.mode = "A" => state.seed = SeedAt(state.anchor)

\* both callers have returned, having carried the same fragment and payload
SameFragmentReturned ==
    /\ \A c \in Callers : calls[c].pc = "returned"
    /\ calls[1].frag = calls[2].frag
    /\ calls[1].content = calls[2].content

\* at most one of the two returned ACCEPT, the other then ERROR or REJECT,
\* and at most one moved the anchor
AcceptedOnce ==
    /\ \A c, d \in Callers :
           (c # d /\ calls[c].out.result = "ACCEPT") =>
               calls[d].out.result \in {"ERROR", "REJECT"}
    /\ ~(calls[1].advanced /\ calls[2].advanced)

\* C38 as stated, in either mode with any evolution function
C38_InterleavedCommits_AnyEvol ==
    /\ ConsistentState
    /\ SameFragmentReturned => AcceptedOnce

\* C38 as amended: the single acceptance holds in Mode A, and in Mode B when
\* Evol is injective
C38_InterleavedCommits ==
    /\ ConsistentState
    /\ (InjectiveEvolution /\ SameFragmentReturned) => AcceptedOnce

\* both callers validated the same fragment before either advanced: one
\* returned ACCEPT and moved the anchor, the other, refused by advance,
\* returned ERROR
C38_Witness ==
    /\ SameFragmentReturned
    /\ state.mode = "A"
    /\ calls[1].out.result = "ACCEPT"
    /\ calls[1].advanced
    /\ calls[2].out = Error
    /\ calls[2].matched = calls[1].matched
    /\ ~calls[2].advanced
    /\ state.anchor = calls[1].matched + 1

====
